---------------------------- MODULE Spec2Model ----------------------------
(***************************************************************************)
(* Model of the Slurm scheduler backends of ReFrame,                       *)
(* reframe/core/schedulers/slurm.py: the sacct backend SlurmJobScheduler   *)
(* (registered as 'slurm') and the squeue backend SqueueJobScheduler       *)
(* (registered as 'squeue').                                               *)
(*                                                                         *)
(* Text is modelled as a sequence of symbols.  A symbol is either a        *)
(* separator character ("," "+" " " "_" ...) or a whole word that contains *)
(* no separator ("COMPLETED", "PartitionDown", "41").  str.split, str.join *)
(* and str.strip are computed on these sequences as Python computes them   *)
(* on characters.  None is the empty tuple and a present value v is <<v>>. *)
(***************************************************************************)
EXTENDS Integers, Sequences, FiniteSets, TLC

VARIABLES
    arg,                \* state classifier: the state string under classification;
                        \* client in a world: what Slurm prints at each time;
                        \* filternodes: the job, the candidates and the answers
    verdict,            \* what the classifier or filternodes returned for arg
    backend,            \* registered name of the scheduler instance
    ignore_reqnodenotavail, \* the option schedulers/@<name>/ignore_reqnodenotavail
    cancel_reasons,     \* self._cancel_reasons
    jobid,              \* job.jobid
    state,              \* job.state
    exitcode,           \* job.exitcode
    nodelist,           \* job.nodelist
    exception,          \* job.exception
    max_pending_time,   \* job.max_pending_time
    is_cancelling,      \* self._is_cancelling
    cancelled,          \* self._cancelled (squeue backend)
    update_state_count, \* self._update_state_count
    submit_time,        \* self._submit_time
    now,                \* wall clock read by datetime.now()
    options,            \* job.options
    completion_time,    \* job._completion_time
    is_job_array,       \* self._is_job_array
    merged,             \* jobs whose array output files were merged into stdout/stderr
    pc,                 \* position of the caller inside wait()
    last                \* record of the last call: inputs read, commands run, outcome

cvars == <<arg, verdict>>
jvars == <<jobid, state, exitcode, nodelist, exception, max_pending_time,
           options, completion_time>>
bvars == <<backend, ignore_reqnodenotavail, cancel_reasons, is_cancelling, cancelled,
           update_state_count, submit_time, is_job_array, merged>>
confvars == <<max_pending_time, options, backend, ignore_reqnodenotavail,
              cancel_reasons>>
mvars == <<jvars, bvars, now, pc, last>>
vars == <<cvars, mvars>>

----------------------------------------------------------------------------
(* Optional values and text helpers *)

None == <<>>

Some(v) == <<v>>

Val(o) == o[1]

\* str.split(sep): the maximal runs between separators; "".split(",") = [""]
RECURSIVE SplitFrom(_, _, _, _, _)
SplitFrom(s, sep, i, cur, acc) ==
    IF i > Len(s) THEN Append(acc, cur)
    ELSE IF s[i] = sep THEN SplitFrom(s, sep, i + 1, <<>>, Append(acc, cur))
    ELSE SplitFrom(s, sep, i + 1, Append(cur, s[i]), acc)

Split(s, sep) == SplitFrom(s, sep, 1, <<>>, <<>>)

\* sep.join(parts); sep.join([]) = ""
RECURSIVE Join(_, _)
Join(parts, sep) ==
    IF parts = <<>> THEN <<>>
    ELSE IF Len(parts) = 1 THEN parts[1]
    ELSE parts[1] \o <<sep>> \o Join(Tail(parts), sep)

\* a one-word text equal to a member of a set of words
WordIn(tok, words) == Len(tok) = 1 /\ tok[1] \in words

SeqsUpTo(S, n) == UNION {[1..k -> S] : k \in 0..n}

Range(f) == {f[x] : x \in DOMAIN f}

----------------------------------------------------------------------------
(* State classifier *)

completion_states ==
    {"BOOT_FAIL", "CANCELLED", "COMPLETED", "DEADLINE", "FAILED",
     "NODE_FAIL", "OUT_OF_MEMORY", "PREEMPTED", "TIMEOUT"}

pending_states_swapped ==
    {"COMPLETED", "CONFIGURING", "PENDING", "RESV_DEL_HOLD", "REQUEUE_FED",
     "REQUEUE_HOLD", "REQUEUED", "RESIZING", "REVOKED", "SIGNALING",
     "SPECIAL_EXIT", "STAGE_OUT", "STOPPED", "SUSPENDED"}

pending_states ==
    {"COMPLETING", "CONFIGURING", "PENDING", "RESV_DEL_HOLD", "REQUEUE_FED",
     "REQUEUE_HOLD", "REQUEUED", "RESIZING", "REVOKED", "SIGNALING",
     "SPECIAL_EXIT", "STAGE_OUT", "STOPPED", "SUSPENDED"}

\* `if state:` is false for None and for the empty string
Truthy(st) == st # None /\ Val(st) # <<>>

slurm_state_completed_any(st) ==
    IF Truthy(st)
    THEN \E i \in DOMAIN Split(Val(st), ",") :
            WordIn(Split(Val(st), ",")[i], completion_states)
    ELSE FALSE

slurm_state_completed(st) ==
    IF Truthy(st)
    THEN \A i \in DOMAIN Split(Val(st), ",") :
            WordIn(Split(Val(st), ",")[i], completion_states)
    ELSE FALSE

slurm_state_pending(st) ==
    IF Truthy(st)
    THEN \E i \in DOMAIN Split(Val(st), ",") :
            WordIn(Split(Val(st), ",")[i], pending_states)
    ELSE FALSE

----------------------------------------------------------------------------
(* Numbers in text: a run of digits is one word *)

Numerals == <<"0", "1", "2", "3", "4", "5", "6", "7", "8", "9">>

IsDigits(w) == \E n \in DOMAIN Numerals : Numerals[n] = w

\* int(w) for a word of digits
int(w) == (CHOOSE n \in DOMAIN Numerals : Numerals[n] = w) - 1

\* str(n)
str(n) == Numerals[n + 1]

Max(S) == CHOOSE m \in S : \A x \in S : x <= m

Min(S) == CHOOSE m \in S : \A x \in S : m <= x

----------------------------------------------------------------------------
(* Nodes: _SlurmNode and _create_nodes.  A node description is the record  *)
(* of its Key=Value tokens; a key that is absent maps to None.             *)

\* _extract_attribute with a separator: the set of the split parts, or None
_extract_attribute_sep(attr_name, node_descr, sep) ==
    IF node_descr[attr_name] = None THEN None
    ELSE Some(Range(Split(Val(node_descr[attr_name]), sep)))

\* `x or set()`
OrEmptySet(o) == IF o = None \/ Val(o) = {} THEN {} ELSE Val(o)

\* _SlurmNode.__init__, for a description that carries a NodeName
_SlurmNode(node_descr) ==
    [name |-> Val(node_descr["NodeName"]),
     partitions |->
         OrEmptySet(_extract_attribute_sep("Partitions", node_descr, ",")),
     active_features |->
         OrEmptySet(_extract_attribute_sep("ActiveFeatures", node_descr, ",")),
     states |-> OrEmptySet(_extract_attribute_sep("State", node_descr, "+"))]

\* _create_nodes: descriptions without a NodeName are skipped, and a set
\* keeps the first node of each name (__eq__ and __hash__ go by name)
RECURSIVE _create_nodes_from(_, _, _)
_create_nodes_from(descriptions, i, nodes) ==
    IF i > Len(descriptions) THEN nodes
    ELSE IF descriptions[i]["NodeName"] = None
            \/ Val(descriptions[i]["NodeName"]) = <<>>
    THEN _create_nodes_from(descriptions, i + 1, nodes)
    ELSE IF \E n \in nodes : n.name = Val(descriptions[i]["NodeName"])
    THEN _create_nodes_from(descriptions, i + 1, nodes)
    ELSE _create_nodes_from(descriptions, i + 1,
                            nodes \cup {_SlurmNode(descriptions[i])})

_create_nodes(descriptions) == _create_nodes_from(descriptions, 1, {})

down_states == {"DOWN", "DRAIN", "MAINT", "NO_RESPOND"}

is_down_all(n) == \A t \in n.states : WordIn(t, down_states)

is_down(n) == \E t \in n.states : WordIn(t, down_states)

----------------------------------------------------------------------------
(* More text helpers *)

IsSpace(c) == c = " "

RECURSIVE lstrip(_)
lstrip(s) == IF s # <<>> /\ IsSpace(s[1]) THEN lstrip(Tail(s)) ELSE s

RECURSIVE rstrip(_)
rstrip(s) ==
    IF s # <<>> /\ IsSpace(s[Len(s)]) THEN rstrip(SubSeq(s, 1, Len(s) - 1))
    ELSE s

strip(s) == rstrip(lstrip(s))

\* str.split(sep, maxsplit=1)
SplitMax1(s, sep) ==
    IF \E i \in DOMAIN s : s[i] = sep
    THEN LET k == Min({i \in DOMAIN s : s[i] = sep})
         IN  <<SubSeq(s, 1, k - 1), SubSeq(s, k + 1, Len(s))>>
    ELSE <<s>>

\* the longest prefix of s without whitespace: what \S+ takes, greedily
RECURSIVE NonSpacePrefix(_)
NonSpacePrefix(s) ==
    IF s = <<>> \/ IsSpace(s[1]) THEN <<>>
    ELSE <<s[1]>> \o NonSpacePrefix(Tail(s))

\* \S+ over a whole field
IsNonSpace(s) == s # <<>> /\ \A i \in DOMAIN s : ~IsSpace(s[i])

----------------------------------------------------------------------------
(* The part of the program state one call may change, with the record of   *)
(* what the call did: the commands it ran, the fields it assigned, the     *)
(* seconds it slept and the error it raised.                               *)

Here ==
    [jobid |-> jobid, state |-> state, exitcode |-> exitcode,
     nodelist |-> nodelist, completion_time |-> completion_time,
     is_cancelling |-> is_cancelling, cancelled |-> cancelled,
     update_state_count |-> update_state_count, now |-> now,
     exception |-> exception, is_job_array |-> is_job_array,
     merged |-> merged,
     cmds |-> <<>>, reads |-> {}, writes |-> {}, checks |-> <<>>,
     raised |-> None, msg |-> <<>>, ret |-> None]

\* the call runs a command and reads these parts of what it answers
RunCmd(S, cmd, answers) ==
    [S EXCEPT !.cmds = Append(@, cmd), !.reads = @ \cup answers]

Raise(S, err, msg) == [S EXCEPT !.raised = Some(err), !.msg = msg]

Raised(S) == S.raised # None

\* _run_strict: run_command with check=True raises when the command fails
_run_strict(S, cmd, answers, ok) ==
    IF ok THEN RunCmd(S, cmd, answers)
    ELSE Raise(RunCmd(S, cmd, answers), "SpawnedProcessError", <<cmd[1]>>)

sleep(S, secs) == [S EXCEPT !.now = @ + secs]

\* an assignment to field f of job j
Assign(S, f, j, v) ==
    [S EXCEPT ![f] = [@ EXCEPT ![j] = v], !.writes = @ \cup {<<f, j>>}]

----------------------------------------------------------------------------
(* cancel *)

Slurm_cancel_clears_jobid(S, j, env) ==
    LET S1 == _run_strict(S, <<"scancel", j>>, {"scancel_ok"}, env.scancel_ok)
    IN  IF Raised(S1) THEN S1
        ELSE Assign([S1 EXCEPT !.is_cancelling = @ \cup {j}], "jobid", j, None)

\* as cancel of the sacct backend, the job not entering is_cancelling
Slurm_cancel_unrecorded(S, j, env) ==
    _run_strict(S, <<"scancel", j>>, {"scancel_ok"}, env.scancel_ok)

\* SlurmJobScheduler.cancel: scancel is run strictly, then the job is flagged
Slurm_cancel(S, j, env) ==
    LET S1 == _run_strict(S, <<"scancel", j>>, {"scancel_ok"}, env.scancel_ok)
    IN  IF Raised(S1) THEN S1
        ELSE [S1 EXCEPT !.is_cancelling = @ \cup {j}]

Squeue_cancel_unmarked(S, j, env) == Slurm_cancel(S, j, env)

\* SqueueJobScheduler.cancel
Squeue_cancel(S, j, env) ==
    LET S1 == Slurm_cancel(S, j, env)
    IN  IF Raised(S1) THEN S1 ELSE [S1 EXCEPT !.cancelled = @ \cup {j}]

\* self.cancel(job): the method of the instantiated class
cancel(S, j, env) ==
    IF backend = "squeue" THEN Squeue_cancel(S, j, env)
    ELSE Slurm_cancel(S, j, env)

----------------------------------------------------------------------------
(* Reason-based cancel policy *)

base_cancel_reasons ==
    {"FrontEndDown", "Licenses", "NodeDown", "PartitionDown",
     "PartitionInactive", "PartitionNodeLimit", "QOSJobLimit",
     "QOSResourceLimit", "QOSUsageThreshold"}

\* __init__: the cancel reasons for the configured ignore_reqnodenotavail
init_cancel_reasons(ignore) ==
    IF ~ignore
    THEN base_cancel_reasons \cup {"ReqNodeNotAvail"}
    ELSE base_cancel_reasons

\* _get_nodes_by_name: scontrol is not run strictly; a failure is an empty reply
\* (its reply, the node descriptions printed for the node names, is read here)
_get_nodes_by_name(reply) == _create_nodes(reply)

\* re.match(r'UnavailableNodes:(?P<node_names>\S+)?', text):
\* None when there is no match, else <<group>>, the group being None or a text
node_match(text) ==
    IF text # <<>> /\ text[1] = "UnavailableNodes:"
    THEN Some(IF NonSpacePrefix(Tail(text)) = <<>> THEN None
              ELSE Some(NonSpacePrefix(Tail(text))))
    ELSE None

reason_msg(reason, reason_details) ==
    <<"job cancelled because it was blocked due to a perhaps non-recoverable reason: ">>
    \o reason
    \o (IF reason_details # None THEN <<",", " ">> \o Val(reason_details)
        ELSE <<>>)

\* lines 474-480: cancel, then raise JobBlockedError
cancel_and_raise(S, j, reason, reason_details, env) ==
    LET S1 == cancel(S, j, env)
    IN  IF Raised(S1) THEN S1
        ELSE Raise(S1, "JobBlockedError", reason_msg(reason, reason_details))

_check_and_cancel_raise_only(S, j, reason_descr, env) ==
    LET parts == SplitMax1(reason_descr, ",")
    IN  IF WordIn(parts[1], cancel_reasons)
        THEN Raise(S, "JobBlockedError", reason_msg(parts[1], None))
        ELSE S

_check_and_cancel(S, j, reason_descr, env) ==
    LET parts == SplitMax1(reason_descr, ",")
        reason == parts[1]
        reason_details == IF Len(parts) = 2 THEN Some(parts[2]) ELSE None
        nm == node_match(strip(Val(reason_details)))
        S1 == RunCmd(S, <<"scontrol", j>>, {"scontrol"})
    IN  IF ~WordIn(reason, cancel_reasons) THEN S
        ELSE IF reason = <<"ReqNodeNotAvail">> /\ Truthy(reason_details)
                /\ nm # None
        THEN IF Val(nm) # None
             THEN IF ~\E n \in _get_nodes_by_name(env.scontrol) :
                        is_down(n)
                  THEN S1
                  ELSE cancel_and_raise(S1, j, reason, reason_details, env)
             ELSE S
        ELSE cancel_and_raise(S, j, reason, reason_details, env)

\* one call of _check_and_cancel, put on the record of the enclosing call
\* with the commands it ran and the error it raised
checked(S, j, reason_descr, T) ==
    [T EXCEPT !.checks =
        Append(@, [job |-> j, reason_descr |-> reason_descr,
                   cmds |-> SubSeq(T.cmds, Len(S.cmds) + 1, Len(T.cmds)),
                   raised |-> T.raised])]

\* the loop over the reason lines; an error ends it
RECURSIVE check_lines(_, _, _, _, _)
check_lines(S, j, lines, i, env) ==
    IF i > Len(lines) \/ Raised(S) THEN S
    ELSE check_lines(checked(S, j, lines[i],
                             _check_and_cancel(S, j, lines[i], env)),
                     j, lines, i + 1, env)

_cancel_if_blocked(S, j, env) ==
    IF j \in S.is_cancelling \/ ~slurm_state_pending(S.state[j]) THEN S
    ELSE LET S1 == _run_strict(S, <<"squeue -o %r", j>>,
                               {"squeue_ok", "reasons"}, env.squeue_ok)
         IN  IF Raised(S1) THEN S1
             ELSE IF env.reasons = <<>> THEN S1
             ELSE check_lines(S1, j, env.reasons, 1, env)

----------------------------------------------------------------------------
(* poll.  A line of sacct or squeue output is the record of its            *)
(* '|'-separated fields.                                                   *)

\* _state_patt, \d+(?:_\d+|_\[\d+-\d+\])?, over a whole jobid field
matches_state_patt(t) ==
    \/ Len(t) = 1 /\ IsDigits(t[1])
    \/ Len(t) = 3 /\ IsDigits(t[1]) /\ t[2] = "_" /\ IsDigits(t[3])
    \/ /\ Len(t) = 7 /\ IsDigits(t[1]) /\ t[2] = "_" /\ t[3] = "["
       /\ IsDigits(t[4]) /\ t[5] = "-" /\ IsDigits(t[6]) /\ t[7] = "]"

\* the regular expression of lines 392-395
sacct_line_matches(l) ==
    /\ matches_state_patt(l.jobid)
    /\ IsNonSpace(l.state)
    /\ IsDigits(l.exitcode)
    /\ IsDigits(l.signal)

\* the regular expression of lines 583-587
squeue_line_matches(l) ==
    /\ matches_state_patt(l.jobid)
    /\ IsNonSpace(l.state)
    /\ \A i \in DOMAIN l.nodespec : ~IsSpace(l.nodespec[i])
    /\ l.reason # <<>>

\* int(s.group('jobid').split('_')[0])
base_jobid(l) == int(Split(l.jobid, "_")[1][1])

\* as jobs_info, with the whole id of a line for the key
jobs_info_whole_id(state_match, id) ==
    SelectSeq(state_match,
              LAMBDA m : Len(m.jobid) = 1 /\ Some(int(m.jobid[1])) = id)

\* jobs_info[job.jobid]: the matched lines of that base id, in output order;
\* the empty sequence stands for the KeyError
jobs_info(state_match, id) ==
    SelectSeq(state_match, LAMBDA m : Some(base_jobid(m)) = id)

Field(lines, f) == [i \in DOMAIN lines |-> lines[i][f]]

\* as _set_nodelist, without the test for 'None assigned'
_set_nodelist_any_spec(S, j, nodespec, env) ==
    IF S.nodelist[j] # None THEN S
    ELSE IF nodespec # <<>>
    THEN Assign(RunCmd(S, <<"scontrol", j>>, {"nodes"}), "nodelist", j,
                Some({n.name : n \in _get_nodes_by_name(env.nodes)}))
    ELSE S

\* _set_nodelist
_set_nodelist(S, j, nodespec, env) ==
    IF S.nodelist[j] # None THEN S
    ELSE IF nodespec # <<>> /\ nodespec # <<"None assigned">>
    THEN Assign(RunCmd(S, <<"scontrol", j>>, {"nodes"}), "nodelist", j,
                Some({n.name : n \in _get_nodes_by_name(env.nodes)}))
    ELSE S

sacct_exitcode_first(jobarr_info) ==
    int(jobarr_info[1].exitcode)

\* lines 420-422: max(int(m.group('exitcode')) for m in jobarr_info)
sacct_exitcode(jobarr_info) ==
    Max({int(jobarr_info[i].exitcode) : i \in DOMAIN jobarr_info})

\* lines 413 and 609: ','.join(m.group('state') for m in jobarr_info)
poll_state(job_match) == Join(Field(job_match, "state"), ",")

SACCT_SQUEUE_RATIO == 10

\* as Slurm_poll_job, asking for the reason in every poll
Slurm_poll_job_every_poll(S, j, jobarr_info, env) ==
    LET S1 == Assign(S, "state", j, Some(poll_state(jobarr_info)))
        S2 == _cancel_if_blocked(S1, j, env)
        S3 == IF slurm_state_completed(S2.state[j])
              THEN Assign(S2, "exitcode", j, Some(sacct_exitcode(jobarr_info)))
              ELSE S2
    IN  IF Raised(S2) THEN S2
        ELSE _set_nodelist(S3, j, Join(Field(jobarr_info, "nodespec"), ","),
                           env)

\* as Slurm_poll_job, recording the node list of a job whose check raised
Slurm_poll_job_nodes_anyway(S, j, jobarr_info, env) ==
    LET S1 == Assign(S, "state", j, Some(poll_state(jobarr_info)))
        S2 == IF S1.update_state_count[j] % SACCT_SQUEUE_RATIO = 0
              THEN _cancel_if_blocked(S1, j, env)
              ELSE S1
        S3 == IF slurm_state_completed(S2.state[j]) /\ ~Raised(S2)
              THEN Assign(S2, "exitcode", j, Some(sacct_exitcode(jobarr_info)))
              ELSE S2
    IN  _set_nodelist(S3, j, Join(Field(jobarr_info, "nodespec"), ","), env)

\* lines 412-427: the body of the loop, for a job with matched lines
Slurm_poll_job(S, j, jobarr_info, env) ==
    LET S1 == Assign(S, "state", j, Some(poll_state(jobarr_info)))
        S2 == IF S1.update_state_count[j] % SACCT_SQUEUE_RATIO = 0
              THEN _cancel_if_blocked(S1, j, env)
              ELSE S1
        S3 == IF slurm_state_completed(S2.state[j])
              THEN Assign(S2, "exitcode", j, Some(sacct_exitcode(jobarr_info)))
              ELSE S2
    IN  IF Raised(S2) THEN S2
        ELSE _set_nodelist(S3, j, Join(Field(jobarr_info, "nodespec"), ","),
                           env)

\* as Slurm_poll_jobs, taking a job with no line for completed
RECURSIVE Slurm_poll_jobs_absent_completed(_, _, _, _, _)
Slurm_poll_jobs_absent_completed(S, jobs, i, state_match, env) ==
    IF i > Len(jobs) \/ Raised(S) THEN S
    ELSE IF jobs_info(state_match, S.jobid[jobs[i]]) = <<>>
    THEN Slurm_poll_jobs_absent_completed(
             Assign(S, "state", jobs[i], Some(<<"COMPLETED">>)),
             jobs, i + 1, state_match, env)
    ELSE Slurm_poll_jobs_absent_completed(
             Slurm_poll_job(S, jobs[i],
                            jobs_info(state_match, S.jobid[jobs[i]]), env),
             jobs, i + 1, state_match, env)

\* lines 406-427: the loop over the jobs; an error ends it
RECURSIVE Slurm_poll_jobs(_, _, _, _, _)
Slurm_poll_jobs(S, jobs, i, state_match, env) ==
    IF i > Len(jobs) \/ Raised(S) THEN S
    ELSE IF jobs_info(state_match, S.jobid[jobs[i]]) = <<>>
    THEN Slurm_poll_jobs(S, jobs, i + 1, state_match, env)
    ELSE Slurm_poll_jobs(
             Slurm_poll_job(S, jobs[i],
                            jobs_info(state_match, S.jobid[jobs[i]]), env),
             jobs, i + 1, state_match, env)

\* SlurmJobScheduler.poll
Slurm_poll(S, jobs, env) ==
    LET S1 == _run_strict(S, <<"sacct">>, {"sacct_ok", "out"}, env.sacct_ok)
        S2 == [S1 EXCEPT !.update_state_count =
                  [j \in DOMAIN @ |->
                      IF j \in Range(jobs) THEN @[j] + 1 ELSE @[j]]]
        state_match == SelectSeq(env.out, sacct_line_matches)
    IN  IF jobs = <<>> THEN S
        ELSE IF Raised(S1) THEN S1
        ELSE IF state_match = <<>> THEN S2
        ELSE Slurm_poll_jobs(S2, jobs, 1, state_match, env)

squeue_delay == 2

absent_state_always_completed(S, j) == <<"COMPLETED">>

absent_state_misspelt(S, j) ==
    IF j \in S.cancelled THEN <<"CANCELED">> ELSE <<"COMPLETED">>

\* lines 598-601
absent_state(S, j) ==
    IF j \in S.cancelled THEN <<"CANCELLED">> ELSE <<"COMPLETED">>

\* lines 597-606: the job has no line in the output
Squeue_poll_absent(S, j) ==
    LET S1 == Assign(S, "state", j, Some(absent_state(S, j)))
    IN  IF S1.exitcode[j] = None THEN Assign(S1, "exitcode", j, Some(0))
        ELSE S1

\* as Squeue_poll_job, checking the reasons of a pending job too
Squeue_poll_job_any_state(S, j, job_match, env) ==
    LET S1 == Assign(S, "state", j, Some(poll_state(job_match)))
    IN  IF j \notin S1.is_cancelling
        THEN check_lines(S1, j, Field(job_match, "reason"), 1, env)
        ELSE S1

\* lines 608-614: the job has lines in the output
Squeue_poll_job(S, j, job_match, env) ==
    LET S1 == Assign(S, "state", j, Some(poll_state(job_match)))
    IN  IF j \notin S1.is_cancelling /\ ~slurm_state_pending(S1.state[j])
        THEN check_lines(S1, j, Field(job_match, "reason"), 1, env)
        ELSE S1

\* lines 594-614: the loop over the jobs; an error ends it
RECURSIVE Squeue_poll_jobs(_, _, _, _, _)
Squeue_poll_jobs(S, jobs, i, state_match, env) ==
    IF i > Len(jobs) \/ Raised(S) THEN S
    ELSE IF jobs_info(state_match, S.jobid[jobs[i]]) = <<>>
    THEN Squeue_poll_jobs(Squeue_poll_absent(S, jobs[i]), jobs, i + 1,
                          state_match, env)
    ELSE Squeue_poll_jobs(
             Squeue_poll_job(S, jobs[i],
                             jobs_info(state_match, S.jobid[jobs[i]]), env),
             jobs, i + 1, state_match, env)

\* SqueueJobScheduler.poll
Squeue_poll(S, jobs, env) ==
    LET m == Max({submit_time[j] : j \in Range(jobs)})
        rem_wait == squeue_delay - (S.now - m)
        S1 == IF rem_wait > 0 THEN sleep(S, rem_wait) ELSE S
        S2 == RunCmd(S1, <<"squeue">>, {"squeue_ok", "out"})
    IN  IF jobs = <<>> THEN S
        ELSE Squeue_poll_jobs(S2, jobs, 1,
                              SelectSeq(env.out, squeue_line_matches), env)

\* self.poll of a batch of jobs: the method of the instantiated class
poll(S, jobs, env) ==
    IF backend = "squeue" THEN Squeue_poll(S, jobs, env)
    ELSE Slurm_poll(S, jobs, env)

----------------------------------------------------------------------------
(* is_array, _merge_files, finished and the steps of wait *)

\* parse_known_args(job.options) for -a/--array: the value of the last such
\* option, or None.  An option is the text <<flag, "=", value>> or <<flag>>.
parsed_array(opts) ==
    LET hits == SelectSeq(opts, LAMBDA o : o # <<>> /\ o[1] \in {"-a", "--array"})
    IN  IF hits = <<>> THEN None
        ELSE Some(SubSeq(hits[Len(hits)], 3, Len(hits[Len(hits)])))

\* `job.jobid not in self._is_job_array`: the keys of the dictionary are job
\* objects and the key looked up is an integer, which equals none of them
jobid_in_is_job_array(S, j) == FALSE

\* is_array
is_array(S, j) ==
    IF ~jobid_in_is_job_array(S, j)
    THEN [S EXCEPT !.is_job_array =
             [k \in DOMAIN @ \cup {j} |->
                 IF k = j THEN Truthy(parsed_array(options[j])) ELSE @[k]]]
    ELSE S

\* _merge_files
_merge_files(S, j) ==
    [S EXCEPT !.merged = @ \cup {j}, !.writes = @ \cup {<<"merged", j>>}]

merge_always(S, j) == _merge_files(is_array(S, j), j)

\* lines 484-485 and 504-505
merge_if_array(S, j) ==
    LET S1 == is_array(S, j)
    IN  IF S1.is_job_array[j] THEN _merge_files(S1, j) ELSE S1

Return(S, v) == [S EXCEPT !.ret = Some(v)]

\* `job.max_pending_time and slurm_state_pending(job.state)` and the
\* comparison of the elapsed time of lines 494-496 and 528-530
pending_too_long_unguarded(S, j) ==
    /\ max_pending_time[j] # None
    /\ S.now - submit_time[j] >= Val(max_pending_time[j])

pending_too_long(S, j) ==
    /\ max_pending_time[j] # None /\ Val(max_pending_time[j]) # 0
    /\ slurm_state_pending(S.state[j])
    /\ S.now - submit_time[j] >= Val(max_pending_time[j])

\* lines 497-499 and 531-533
cancel_timed_out(S, j, env) ==
    LET S1 == cancel(S, j, env)
    IN  IF Raised(S1) THEN S1
        ELSE Raise(S1, "JobError", <<"maximum pending time exceeded">>)

finished_keep_exception(S, j, env) ==
    IF S.exception[j] # None
    THEN IF Val(S.exception[j]) = "JobError" THEN Return(S, FALSE)
         ELSE Raise(S, Val(S.exception[j]), <<>>)
    ELSE Return(S, slurm_state_completed(S.state[j]))

\* the errors `except JobError` catches
IsJobError(e) == e \in {"JobError", "JobBlockedError"}

\* finished
finished(S, j, env) ==
    IF S.exception[j] # None
    THEN LET S1 == [S EXCEPT !.exception[j] = None]
         IN  IF Val(S.exception[j]) = "JobBlockedError"
             THEN Raise(S1, "JobBlockedError", <<>>)
             ELSE IF IsJobError(Val(S.exception[j]))
             THEN Return(S1, FALSE)
             ELSE Raise(S1, Val(S.exception[j]), <<>>)
    ELSE IF pending_too_long(S, j) THEN cancel_timed_out(S, j, env)
    ELSE Return(S, slurm_state_completed(S.state[j]))

\* itertools.cycle([1, 2, 3])
intervals == <<1, 2, 3>>

wait_enter_any_state(S, j, env) ==
    IF S.state[j] # None
    THEN Return(merge_if_array(S, j), "None")
    ELSE poll(S, <<j>>, env)

\* wait, lines 483-491: the fast path, or the first poll
wait_enter(S, j, env) ==
    IF slurm_state_completed(S.state[j])
    THEN Return(merge_if_array(S, j), "None")
    ELSE poll(S, <<j>>, env)

\* as wait_loop, sleeping and not polling
wait_loop_no_poll(S, j, k, env) ==
    IF slurm_state_completed(S.state[j])
    THEN Return(merge_if_array(S, j), "None")
    ELSE IF pending_too_long(S, j) THEN cancel_timed_out(S, j, env)
    ELSE sleep(S, intervals[k])

\* wait, lines 493-505: one test of the loop condition, and then either one
\* iteration of the loop or the merge and the return
wait_loop(S, j, k, env) ==
    IF slurm_state_completed(S.state[j])
    THEN Return(merge_if_array(S, j), "None")
    ELSE IF pending_too_long(S, j) THEN cancel_timed_out(S, j, env)
    ELSE poll(sleep(S, intervals[k]), <<j>>, env)

\* float(s.group('end')) raises ValueError unless the text is a number
IsFloat(w) == Len(w) = 1 /\ IsDigits(w[1])

\* the regular expression of lines 130-132
end_line_matches(l) == matches_state_patt(l.jobid) /\ IsNonSpace(l.end)

max_completion_time_first(ends) == int(ends[1][1])

\* lines 136-142: max(completion_times)
max_completion_time(ends) == Max({int(ends[i][1]) : i \in DOMAIN ends})

\* `job._completion_time or ...`: None and a time of 0 are falsy
cached(S, j) == S.completion_time[j] # None /\ Val(S.completion_time[j]) # 0

\* SlurmJobScheduler.completion_time
Slurm_completion_time(S, j, env) ==
    LET S1 == RunCmd(S, <<"sacct -o jobid,end", j>>, {"ends"})
        state_match == SelectSeq(env.ends, end_line_matches)
        completion_times == SelectSeq(Field(state_match, "end"), IsFloat)
    IN  IF cached(S, j) \/ ~slurm_state_completed(S.state[j])
        THEN Return(S, S.completion_time[j])
        ELSE IF state_match = <<>> THEN Return(S1, None)
        ELSE IF completion_times # <<>>
        THEN Return(Assign(S1, "completion_time", j,
                           Some(max_completion_time(completion_times))),
                    Some(max_completion_time(completion_times)))
        ELSE Return(S1, S1.completion_time[j])

\* SqueueJobScheduler.completion_time
Squeue_completion_time(S, j, env) == Return(S, None)

\* self.completion_time(job): the method of the instantiated class
completion_time_of(S, j, env) ==
    IF backend = "squeue" THEN Squeue_completion_time(S, j, env)
    ELSE Slurm_completion_time(S, j, env)

----------------------------------------------------------------------------
(* emit_preamble.  A directive fragment is the sequence of the symbols of   *)
(* its text: a flag is one symbol, "=" and " " are symbols, a value is one  *)
(* symbol or several.  A line of the preamble is a sequence of symbols too. *)

\* _format_option(var, option) for an option whose text is `pre` followed by
\* the formatted value and `post`
_format_option(var, pre, post) ==
    IF var # None THEN <<"#SBATCH", " ">> \o pre \o Val(var) \o post
    ELSE <<>>

\* opt.strip().startswith(('-C', '--constraint'))
starts_with_constraint(opt) ==
    strip(opt) # <<>> /\ strip(opt)[1] \in {"-C", "--constraint"}

\* prefix_patt.match(opt): the fragment opens with # and a word
has_prefix(opt) == opt # <<>> /\ opt[1] \in {"#DW", "#SBATCH"}

\* how argparse reads one item of the list for a parser that knows only -C
\* and --constraint: the item is the option with its value attached
\* ("explicit"), the option alone ("bare"), an unknown option ("option") or
\* not an option ("positional")
constraint_item(t) ==
    IF t = <<>> THEN [kind |-> "positional"]
    ELSE IF t[1] \in {"-C", "--constraint"} /\ Len(t) = 1
    THEN [kind |-> "bare"]
    ELSE IF t[1] \in {"-C", "--constraint"} /\ t[2] = "="
    THEN [kind |-> "explicit", value |-> SubSeq(t, 3, Len(t))]
    ELSE IF t[1] = "-C"
    THEN [kind |-> "explicit", value |-> SubSeq(t, 2, Len(t))]
    ELSE IF t[1] = "--constraint" THEN [kind |-> "positional"]
    ELSE IF t[1] \in {"--gres", "--array", "-a"} THEN [kind |-> "option"]
    ELSE [kind |-> "positional"]

\* constraint_parser.parse_known_args(items).constraint: the value of the
\* last occurrence, None without one; an option alone takes the next item
\* for its value when that is not an option, and ends the program otherwise.
\* The result is [value, exit].
RECURSIVE parse_constraint(_, _, _)
parse_constraint(items, i, cur) ==
    IF i > Len(items) THEN [value |-> cur, exit |-> FALSE]
    ELSE LET it == constraint_item(items[i])
         IN  IF it.kind = "explicit"
             THEN parse_constraint(items, i + 1, Some(it.value))
             ELSE IF it.kind = "bare"
             THEN IF i < Len(items)
                     /\ constraint_item(items[i + 1]).kind = "positional"
                  THEN parse_constraint(items, i + 2, Some(items[i + 1]))
                  ELSE [value |-> cur, exit |-> TRUE]
             ELSE parse_constraint(items, i + 1, cur)

\* lines 196-198 and 218-226: the fragments that are emitted, those of
\* job.options as they are when they carry a prefix of their own
access_lines(sched_access) ==
    [i \in DOMAIN SelectSeq(sched_access,
                            LAMBDA o : ~starts_with_constraint(o)) |->
        <<"#SBATCH", " ">>
        \o SelectSeq(sched_access, LAMBDA o : ~starts_with_constraint(o))[i]]

option_lines(opts) ==
    [i \in DOMAIN SelectSeq(opts, LAMBDA o : ~starts_with_constraint(o)) |->
        LET o == SelectSeq(opts, LAMBDA x : ~starts_with_constraint(x))[i]
        IN  IF has_prefix(o) THEN o ELSE <<"#SBATCH", " ">> \o o]

\* as constraints_of, with the constraint of job.options first
constraints_of_swapped(a, o) ==
    (IF Truthy(o) THEN <<strip(Val(o))>> ELSE <<>>)
    \o (IF Truthy(a) THEN <<strip(Val(a))>> ELSE <<>>)

\* lines 200-216: the constraints of sched_access and of job.options, and
\* the directive made of them
constraints_of(a, o) ==
    (IF Truthy(a) THEN <<strip(Val(a))>> ELSE <<>>)
    \o (IF Truthy(o) THEN <<strip(Val(o))>> ELSE <<>>)

constraint_line(constraints) ==
    IF constraints # <<>>
    THEN <<_format_option(Some(Join(constraints, "&")),
                          <<"--constraint", "=">>, <<>>)>>
    ELSE <<>>

\* seconds_to_hms and '%d:%d:%d'
hms(secs) ==
    <<str(secs \div 3600), ":", str((secs % 3600) \div 60), ":",
      str(secs % 60)>>

\* the hint of lines 190-193
hint_of(use_smt) ==
    IF use_smt = None THEN None
    ELSE IF Val(use_smt) THEN Some(<<"multithread">>)
    ELSE Some(<<"nomultithread">>)

\* the text of a number that may be None
StrOf(n) == IF n = None THEN None ELSE Some(<<str(Val(n))>>)

\* emit_preamble(job) for job j, whose fields but job.options are those of
\* the record job: the lines are returned in S.ret; is_array is called for
\* the output file and again for the error file
emit_preamble(S, j, job, use_nodes_opt) ==
    LET S1 == is_array(is_array(S, j), j)
        suffix == IF S1.is_job_array[j] THEN <<"_%a">> ELSE <<>>
        head ==
            <<_format_option(job.name, <<"--job-name", "=", "\"">>, <<"\"">>),
              _format_option(StrOf(job.num_tasks), <<"--ntasks", "=">>, <<>>),
              _format_option(StrOf(job.num_tasks_per_node),
                             <<"--ntasks-per-node", "=">>, <<>>),
              _format_option(StrOf(job.num_tasks_per_core),
                             <<"--ntasks-per-core", "=">>, <<>>),
              _format_option(StrOf(job.num_tasks_per_socket),
                             <<"--ntasks-per-socket", "=">>, <<>>),
              _format_option(StrOf(job.num_cpus_per_task),
                             <<"--cpus-per-task", "=">>, <<>>),
              _format_option(job.sched_partition, <<"--partition", "=">>, <<>>),
              _format_option(job.sched_account, <<"--account", "=">>, <<>>),
              _format_option(job.sched_nodelist, <<"--nodelist", "=">>, <<>>),
              _format_option(job.sched_exclude_nodelist,
                             <<"--exclude", "=">>, <<>>),
              _format_option(job.sched_reservation,
                             <<"--reservation", "=">>, <<>>),
              _format_option(job.stdout, <<"--output", "=">>, suffix),
              _format_option(job.stderr, <<"--error", "=">>, suffix)>>
        time ==
            IF job.time_limit # None
            THEN <<_format_option(Some(hms(Val(job.time_limit))),
                                  <<"--time", "=">>, <<>>)>>
            ELSE <<>>
        exclusive ==
            IF job.sched_exclusive_access # None
               /\ Val(job.sched_exclusive_access)
            THEN <<_format_option(Some(<<>>), <<"--exclusive">>, <<>>)>>
            ELSE <<>>
        nodes ==
            IF use_nodes_opt
            THEN <<_format_option(
                       Some(<<str(Val(job.num_tasks)
                                  \div Val(job.num_tasks_per_node))>>),
                       <<"--nodes", "=">>, <<>>)>>
            ELSE <<>>
        a == parse_constraint(job.sched_access, 1, None)
        o == parse_constraint(options[j], 1, None)
        preamble ==
            head \o time \o exclusive \o nodes
            \o access_lines(job.sched_access)
            \o constraint_line(constraints_of(a.value, o.value))
            \o <<_format_option(hint_of(job.use_smt), <<"--hint", "=">>, <<>>)>>
            \o option_lines(options[j])
    IN  IF use_nodes_opt
           /\ (job.num_tasks = None \/ job.num_tasks_per_node = None)
        THEN Raise(S1, "TypeError", <<"//">>)
        ELSE IF use_nodes_opt /\ Val(job.num_tasks_per_node) = 0
        THEN Raise(S1, "ZeroDivisionError", <<"//">>)
        ELSE IF a.exit \/ o.exit
        THEN Raise(S1, "SystemExit", <<"expected one argument">>)
        ELSE [S1 EXCEPT !.ret = Some(SelectSeq(preamble, LAMBDA l : l # <<>>))]

----------------------------------------------------------------------------
(* filternodes.  Sets of nodes are sets of node records; Python compares    *)
(* and hashes nodes by name.                                                *)

\* parse_known_args for one option: the value of its last occurrence, or None.
\* An option is the text <<flag, "=", value>>.
parsed_option(opts, flags) ==
    LET hits == SelectSeq(opts, LAMBDA o : o # <<>> /\ o[1] \in flags)
    IN  IF hits = <<>> THEN None
        ELSE Some(SubSeq(hits[Len(hits)], 3, Len(hits[Len(hits)])))

\* lines 280-294: job.options followed by the options made of the
\* sched_* fields of the job that are set (job.sched_access is empty)
filter_options(job) ==
    job.options
    \o (IF Truthy(job.sched_partition)
        THEN <<<<"--partition", "=">> \o Val(job.sched_partition)>> ELSE <<>>)
    \o (IF Truthy(job.sched_nodelist)
        THEN <<<<"--nodelist", "=">> \o Val(job.sched_nodelist)>> ELSE <<>>)
    \o (IF Truthy(job.sched_exclude_nodelist)
        THEN <<<<"--exclude", "=">> \o Val(job.sched_exclude_nodelist)>>
        ELSE <<>>)
    \o (IF Truthy(job.sched_reservation)
        THEN <<<<"--reservation", "=">> \o Val(job.sched_reservation)>>
        ELSE <<>>)

SameName(n, nodes) == \E m \in nodes : m.name = n.name

\* so &= other: CPython walks the smaller set, other when the sizes are
\* equal, and keeps its members that are in the larger one
node_intersection(so, other) ==
    IF Cardinality(other) > Cardinality(so)
    THEN {n \in so : SameName(n, other)}
    ELSE {n \in other : SameName(n, so)}

node_difference_swapped(so, other) == {n \in other : ~SameName(n, so)}

\* so -= other
node_difference(so, other) == {n \in so : ~SameName(n, other)}

\* what filternodes has done so far: the nodes left, the debug messages with
\* the nodes left at each, the commands run and the error raised
FilterStart(nodes) ==
    [nodes |-> nodes, log |-> <<>>, cmds |-> <<>>, raised |-> None]

FilterLog(F, step) ==
    [F EXCEPT !.log = Append(@, [step |-> step, nodes |-> F.nodes])]

FilterCmd(F, cmd) == [F EXCEPT !.cmds = Append(@, cmd)]

FilterRaise(F, err) == [F EXCEPT !.raised = Some(err)]

\* _get_reservation_nodes: both commands are run strictly, and the first
\* must print Nodes=<names>
filter_reservation(F, reservation, env) ==
    LET F1 == FilterCmd(F, <<"scontrol show res", reservation>>)
        F2 == FilterCmd(F1, <<"scontrol show -o", Val(env.res_nodes)>>)
    IN  IF ~env.res_ok THEN FilterRaise(F1, "SpawnedProcessError")
        ELSE IF ~Truthy(env.res_nodes) THEN FilterRaise(F1, "JobError")
        ELSE IF ~env.res_nodes_ok THEN FilterRaise(F2, "SpawnedProcessError")
        ELSE FilterLog([F2 EXCEPT !.nodes =
                           node_intersection(@, _create_nodes(env.res_descr))],
                       "reservation")

\* _get_default_partition: the first partition printed with Default=YES
default_partition(partitions_out) ==
    LET hits == SelectSeq(partitions_out, LAMBDA l : l.Default = "YES")
    IN  IF hits = <<>> THEN None ELSE Some(hits[1].PartitionName)

\* lines 315-326
filter_partitions(F, partitions, env) ==
    LET F1 == FilterCmd(F, <<"scontrol show -o partitions">>)
        wanted ==
            IF Truthy(partitions)
            THEN Range(Split(strip(Val(partitions)), ","))
            ELSE IF Truthy(default_partition(env.partitions_out))
            THEN {Val(default_partition(env.partitions_out))}
            ELSE {}
        kept(G) ==
            FilterLog([G EXCEPT !.nodes = {n \in @ : wanted \subseteq n.partitions}],
                      "partitions")
    IN  IF Truthy(partitions) THEN kept(F)
        ELSE IF ~env.partitions_ok THEN FilterRaise(F1, "SpawnedProcessError")
        ELSE kept(F1)

\* lines 328-333
filter_constraints(F, constraints) ==
    IF Truthy(constraints)
    THEN FilterLog([F EXCEPT !.nodes =
                       {n \in @ : Range(Split(strip(Val(constraints)), "&"))
                                      \subseteq n.active_features}],
                   "constraints")
    ELSE F

\* lines 335-340
filter_nodelist(F, node_list, env) ==
    IF Truthy(node_list)
    THEN FilterLog(
             [FilterCmd(F, <<"scontrol show -o node", strip(Val(node_list))>>)
                 EXCEPT !.nodes =
                     node_intersection(@, _get_nodes_by_name(env.nodelist_descr))],
             "nodelist")
    ELSE F

\* lines 342-347
filter_exclude(F, exclude_nodes, env) ==
    IF Truthy(exclude_nodes)
    THEN FilterLog(
             [FilterCmd(F, <<"scontrol show -o node", strip(Val(exclude_nodes))>>)
                 EXCEPT !.nodes =
                     node_difference(@, _get_nodes_by_name(env.exclude_descr))],
             "exclude")
    ELSE F

\* filternodes
filternodes(job, nodes, env) ==
    LET opts == filter_options(job)
        reservation == parsed_option(opts, {"--reservation"})
        partitions == parsed_option(opts, {"-p", "--partition"})
        node_list == parsed_option(opts, {"-w", "--nodelist"})
        constraints == parsed_option(opts, {"-C", "--constraint"})
        exclude_nodes == parsed_option(opts, {"-x", "--exclude"})
        F1 == IF Truthy(reservation)
              THEN filter_reservation(FilterStart(nodes),
                                      strip(Val(reservation)), env)
              ELSE FilterStart(nodes)
        F2 == filter_partitions(F1, partitions, env)
        F5 == filter_exclude(
                  filter_nodelist(filter_constraints(F2, constraints),
                                  node_list, env),
                  exclude_nodes, env)
    IN  IF F1.raised # None THEN F1
        ELSE IF F2.raised # None THEN F2
        ELSE F5

submitted_jobid_last(stdout) ==
    LET hits == {i \in 1..(Len(stdout) - 1) :
                    stdout[i] = "Submitted batch job " /\ IsDigits(stdout[i + 1])}
    IN  IF hits = {} THEN None ELSE Some(int(stdout[Max(hits) + 1]))

\* submit, lines 237-243: the first 'Submitted batch job <digits>' of stdout
submitted_jobid(stdout) ==
    LET hits == {i \in 1..(Len(stdout) - 1) :
                    stdout[i] = "Submitted batch job " /\ IsDigits(stdout[i + 1])}
    IN  IF hits = {} THEN None ELSE Some(int(stdout[Min(hits) + 1]))

----------------------------------------------------------------------------
(* Bounds and the answers of the Slurm commands *)

Jobs == {"j1", "j2"}

\* the id sbatch gives each job, as the word it prints
IdWord == [j \in Jobs |-> IF j = "j1" THEN "7" ELSE "8"]

MaxLines == 2       \* lines of output per job (array members), in SpecPoll
MaxExit == 1        \* largest exit code reported
MaxTime == 3        \* last tick of the clock
MaxPolls == 2       \* polls per job in Spec
MaxPollsLong == 10  \* polls per job in SpecPoll

\* the id field of line i of n lines about a job: <id> alone, or <id>_<index>
IdField(w, i, n) == IF n = 1 THEN <<w>> ELSE <<w, "_", str(i - 1)>>

\* sacct: state, exit code and node list of a line
SacctKinds ==
    {[state |-> <<"PENDING">>, exitcode |-> "0", nodespec |-> <<"None assigned">>],
     [state |-> <<"RUNNING">>, exitcode |-> "0", nodespec |-> <<"nid001">>],
     [state |-> <<"COMPLETED">>, exitcode |-> "0", nodespec |-> <<"nid001">>]}
    \cup {[state |-> <<"FAILED">>, exitcode |-> str(c), nodespec |-> <<"nid001">>] :
             c \in 1..MaxExit}

\* sacct -P prints a header line first; the regular expression does not match it
SacctHeader ==
    [jobid |-> <<"JobID">>, state |-> <<"State">>, exitcode |-> "ExitCode",
     signal |-> "", nodespec |-> <<"NodeList">>]

\* the line of the batch step of a job, <id>.batch, which does not match either
SacctStep(j) ==
    [jobid |-> <<IdWord[j], ".", "batch">>, state |-> <<"COMPLETED">>,
     exitcode |-> "0", signal |-> "0", nodespec |-> <<"nid001">>]

\* sacct: the lines about job j, at most n of them for the job or the members
\* of its array; the step line follows the line of a single job that started
SacctGroups(j, n) ==
    LET members ==
            {[i \in DOMAIN g |->
                 [jobid |-> IdField(IdWord[j], i, Len(g)), state |-> g[i].state,
                  exitcode |-> g[i].exitcode, signal |-> "0",
                  nodespec |-> g[i].nodespec]] : g \in SeqsUpTo(SacctKinds, n)}
    IN  members
        \cup {Append(m, SacctStep(j)) :
                 m \in {g \in members : Len(g) = 1 /\ g[1].state # <<"PENDING">>}}

ReqNodeNotAvail(details) == <<"ReqNodeNotAvail", ",", " ">> \o details

\* squeue -o %r: the pending reasons printed for a job
ReasonLines ==
    {<<"Priority">>, <<"PartitionDown">>, <<"ReqNodeNotAvail">>,
     ReqNodeNotAvail(<<"UnavailableNodes:">>),
     ReqNodeNotAvail(<<"UnavailableNodes:", "nid[01-02]">>),
     ReqNodeNotAvail(<<"Reserved for maintenance">>)}

ReasonOutputs ==
    {<<>>} \cup {<<r>> : r \in ReasonLines}
    \cup {<<<<"Priority">>, <<"PartitionDown">>>>,
          <<ReqNodeNotAvail(<<"UnavailableNodes:", "nid[01-02]">>),
            <<"PartitionDown">>>>}

\* a node description with all its Key=Value tokens
NodeDescrFull(name, st, parts, feats) ==
    [NodeName |-> name, State |-> st, Partitions |-> parts,
     ActiveFeatures |-> feats]

\* a node description with no Partitions and no ActiveFeatures token
NodeDescr(name, st) == NodeDescrFull(name, st, None, None)

\* scontrol show -o node nid[01-02]: the descriptions printed
ScontrolReplies ==
    {<<>>,
     <<NodeDescr(Some(<<"nid01">>), Some(<<"IDLE">>)),
       NodeDescr(Some(<<"nid02">>), Some(<<"MIXED">>))>>,
     <<NodeDescr(Some(<<"nid01">>), Some(<<"IDLE">>)),
       NodeDescr(Some(<<"nid02">>), Some(<<"IDLE", "+", "DRAIN">>))>>,
     <<NodeDescr(Some(<<"nid01">>), Some(<<"DOWN">>)),
       NodeDescr(Some(<<"nid02">>), Some(<<"DOWN">>))>>,
     <<NodeDescr(None, Some(<<"DOWN">>)),
       NodeDescr(Some(<<"nid02">>), None)>>}

\* squeue -o "%i|%T|%N|%r": state and reason of a line
SqueueKinds ==
    {[state |-> <<"PENDING">>, reason |-> <<"Priority">>],
     [state |-> <<"PENDING">>, reason |-> <<"PartitionDown">>],
     [state |-> <<"RUNNING">>, reason |-> <<"None">>],
     [state |-> <<"RUNNING">>, reason |-> <<"PartitionDown">>],
     [state |-> <<"RUNNING">>,
      reason |-> ReqNodeNotAvail(<<"UnavailableNodes:", "nid[01-02]">>)],
     [state |-> <<"COMPLETING">>, reason |-> <<"None">>]}

\* squeue -h: the lines about job j, at most n of them
SqueueGroups(j, n) ==
    {[i \in DOMAIN g |->
         [jobid |-> IdField(IdWord[j], i, Len(g)), state |-> g[i].state,
          nodespec |-> IF g[i].state = <<"PENDING">> THEN <<>> ELSE <<"nid001">>,
          reason |-> g[i].reason]] :
     g \in SeqsUpTo(SqueueKinds, n)}

\* what the commands answer when nothing is chosen: every command succeeds
\* and prints nothing, but for the node description of nid001
DefaultEnv ==
    [sacct_ok |-> TRUE, out |-> <<>>, squeue_ok |-> TRUE, reasons |-> <<>>,
     scontrol |-> <<>>, scancel_ok |-> TRUE, ends |-> <<>>,
     nodes |-> <<NodeDescr(Some(<<"nid001">>), Some(<<"ALLOCATED">>))>>,
     sbatch_ok |-> TRUE, stdout |-> <<>>]

\* Which answers a call can read at all, from the texts alone: the node
\* descriptions only after a reason that names unavailable nodes, scancel
\* only after a reason, and the reasons of the sacct backend only when a line
\* reports a pending state in a poll that brings the counter of a job to a
\* multiple of the ratio.
NamesNodes(reasons) ==
    \E i \in DOMAIN reasons : "UnavailableNodes:" \in Range(reasons[i])

ReasonEnvs(base, reasons) ==
    {[base EXCEPT !.scontrol = n, !.scancel_ok = c] :
        n \in IF NamesNodes(reasons) THEN ScontrolReplies ELSE {<<>>},
        c \in IF reasons = <<>> THEN {TRUE} ELSE BOOLEAN}

HasPendingLine(o) ==
    \E i \in DOMAIN o : \E k \in DOMAIN o[i].state : o[i].state[k] \in pending_states

\* the answers to the sacct backend's poll that prints o, when the poll does
\* not or does bring a counter to a multiple of the ratio
SacctEnvsOf(o, at_ratio, reasons) ==
    IF at_ratio /\ HasPendingLine(o)
    THEN {[DefaultEnv EXCEPT !.out = o, !.squeue_ok = FALSE]}
         \cup UNION {ReasonEnvs([DefaultEnv EXCEPT !.out = o, !.reasons = r], r) :
                        r \in reasons}
    ELSE {[DefaultEnv EXCEPT !.out = o]}

SacctEnvs(o, at_ratio) == SacctEnvsOf(o, at_ratio, ReasonOutputs)

\* the answers to a poll of one job, worked out once
SacctEnvs1 ==
    [n \in 0..MaxLines |-> [j \in Jobs |-> [at_ratio \in BOOLEAN |->
        {[DefaultEnv EXCEPT !.sacct_ok = FALSE]}
        \cup UNION {SacctEnvs(<<SacctHeader>> \o g, at_ratio) :
                       g \in SacctGroups(j, n)}]]]

SqueueEnvs1 ==
    [n \in 0..MaxLines |-> [j \in Jobs |->
        UNION {ReasonEnvs([DefaultEnv EXCEPT !.out = g], Field(g, "reason")) :
                  g \in SqueueGroups(j, n)}]]

AtRatio(jobs) ==
    \E i \in DOMAIN jobs :
        (update_state_count[jobs[i]] + 1) % SACCT_SQUEUE_RATIO = 0

\* the output about a batch: the lines of its jobs, job after job
RECURSIVE Outputs(_, _)
Outputs(jobs, n) ==
    IF jobs = <<>> THEN {<<>>}
    ELSE {g \o rest :
             g \in IF backend = "squeue" THEN SqueueGroups(jobs[1], n)
                   ELSE SacctGroups(jobs[1], n),
             rest \in Outputs(Tail(jobs), n)}

\* the answers a poll of the batch may get, with at most n lines per job
PollEnvs(jobs, n) ==
    IF Len(jobs) = 1
    THEN IF backend = "squeue" THEN SqueueEnvs1[n][jobs[1]]
         ELSE SacctEnvs1[n][jobs[1]][AtRatio(jobs)]
    ELSE IF backend = "squeue"
    THEN UNION {ReasonEnvs([DefaultEnv EXCEPT !.out = o], Field(o, "reason")) :
                   o \in Outputs(jobs, n)}
    ELSE {[DefaultEnv EXCEPT !.sacct_ok = FALSE]}
         \cup UNION {SacctEnvs(<<SacctHeader>> \o o, AtRatio(jobs)) :
                        o \in Outputs(jobs, n)}

\* job.options: no option, a job array of two, and an array option that
\* has no value
ArrayOptions ==
    {<<>>, <<<<"--array", "=", "0-1">>>>, <<<<"-a", "=">>>>}

\* the id field of a range of members of an array, <id>_[<a>-<b>]
IdRange(w, a, b) == <<w, "_", "[", str(a), "-", str(b), "]">>

\* sacct about two jobs polled in one batch: a single job, a member of an
\* array and a range of members of the first, a single job and a member of
\* an array of the second, and the batch step of the first
SacctBatchLines ==
    {[jobid |-> <<IdWord["j1"]>>, state |-> <<"PENDING">>, exitcode |-> "0",
      signal |-> "0", nodespec |-> <<"None assigned">>],
     [jobid |-> IdField(IdWord["j1"], 1, 2), state |-> <<"COMPLETED">>,
      exitcode |-> "0", signal |-> "0", nodespec |-> <<"nid001">>],
     [jobid |-> IdRange(IdWord["j1"], 2, 3), state |-> <<"PENDING">>,
      exitcode |-> "0", signal |-> "0", nodespec |-> <<"None assigned">>],
     [jobid |-> <<IdWord["j2"]>>, state |-> <<"FAILED">>,
      exitcode |-> str(MaxExit), signal |-> "0", nodespec |-> <<"nid001">>],
     [jobid |-> IdField(IdWord["j2"], 2, 2), state |-> <<"PENDING">>,
      exitcode |-> "0", signal |-> "0", nodespec |-> <<"None assigned">>],
     SacctStep("j1")}

\* squeue about the same jobs
SqueueBatchLines ==
    {[jobid |-> <<IdWord["j1"]>>, state |-> <<"PENDING">>, nodespec |-> <<>>,
      reason |-> <<"PartitionDown">>],
     [jobid |-> IdField(IdWord["j1"], 1, 2), state |-> <<"RUNNING">>,
      nodespec |-> <<"nid001">>, reason |-> <<"None">>],
     [jobid |-> IdRange(IdWord["j1"], 2, 3), state |-> <<"PENDING">>,
      nodespec |-> <<>>, reason |-> <<"Priority">>],
     [jobid |-> <<IdWord["j2"]>>, state |-> <<"RUNNING">>,
      nodespec |-> <<"nid001">>, reason |-> <<"PartitionDown">>],
     [jobid |-> IdField(IdWord["j2"], 2, 2), state |-> <<"RUNNING">>,
      nodespec |-> <<"nid001">>, reason |-> <<"None">>]}

\* the outputs about a batch: up to MaxLines of the lines in any order, and
\* the lines of the second job between lines of the first
BatchOutputs(lines) ==
    SeqsUpTo(lines, MaxLines)
    \cup {<<a, b, c>> : a \in {l \in lines : l.jobid = IdField(IdWord["j1"], 1, 2)},
                        b \in {l \in lines : l.jobid[1] = IdWord["j2"]},
                        c \in {l \in lines : l.jobid = IdRange(IdWord["j1"], 2, 3)}}

SacctBatchOutputs == BatchOutputs(SacctBatchLines)

SqueueBatchOutputs == BatchOutputs(SqueueBatchLines)

\* squeue -o %r about a job of a batch: nothing, a reason to wait, a reason
\* to cancel
BatchReasonOutputs == {<<>>, <<<<"Priority">>>>, <<<<"PartitionDown">>>>}

\* sacct has a record of the jobs of a batch only when each has been polled
\* all but two of the times it is polled: the first polls of a job find the
\* accounting database empty
Recorded(jobs) ==
    \A i \in DOMAIN jobs : update_state_count[jobs[i]] >= MaxPollsLong - 2

\* the answers a poll of a batch of two jobs may get
BatchEnvs(jobs) ==
    IF backend = "squeue"
    THEN UNION {ReasonEnvs([DefaultEnv EXCEPT !.out = o], Field(o, "reason")) :
                   o \in SqueueBatchOutputs}
    ELSE {[DefaultEnv EXCEPT !.sacct_ok = FALSE]}
         \cup UNION {SacctEnvsOf(<<SacctHeader>> \o o, AtRatio(jobs),
                                 BatchReasonOutputs) :
                        o \in IF Recorded(jobs) THEN SacctBatchOutputs
                              ELSE {<<>>}}

\* the answers a call may get when the only command it can run is scancel
CancelEnvs == {[DefaultEnv EXCEPT !.scancel_ok = c] : c \in BOOLEAN}

\* sacct -o jobid,end with SLURM_TIME_FORMAT=%s: the lines about job j
EndHeader == [jobid |-> <<"JobID">>, end |-> <<"End">>]

EndOutputs ==
    [j \in Jobs |->
        {<<>>,
         <<EndHeader, [jobid |-> <<IdWord[j]>>, end |-> <<"Unknown">>]>>,
         <<EndHeader, [jobid |-> <<IdWord[j]>>, end |-> <<"5">>],
           [jobid |-> <<IdWord[j], ".", "batch">>, end |-> <<"6">>]>>,
         <<EndHeader, [jobid |-> <<IdWord[j], "_", "0">>, end |-> <<"5">>],
           [jobid |-> <<IdWord[j], "_", "1">>, end |-> <<"6">>]>>,
         <<EndHeader, [jobid |-> <<IdWord[j], "_", "0">>, end |-> <<"6">>],
           [jobid |-> <<IdWord[j], "_", "1">>, end |-> <<"Unknown">>]>>}]

EndEnvs(j) == {[DefaultEnv EXCEPT !.ends = e] : e \in EndOutputs[j]}

\* an answer the call did not read is the default one, and a failed command
\* prints nothing: each behaviour of the call is taken once
ReadsOnly(S, env) ==
    /\ \A f \in DOMAIN DefaultEnv \ {"nodes"} :
          f \notin S.reads => env[f] = DefaultEnv[f]
    /\ ~env.squeue_ok => env.reasons = <<>>

----------------------------------------------------------------------------
(* The calls of the client *)

\* a call ends: the program state it leaves and the record of the call
Keep(S, op, jobs, env) ==
    /\ jobid' = S.jobid
    /\ state' = S.state
    /\ exitcode' = S.exitcode
    /\ completion_time' = S.completion_time
    /\ nodelist' = S.nodelist
    /\ exception' = S.exception
    /\ is_cancelling' = S.is_cancelling
    /\ cancelled' = S.cancelled
    /\ update_state_count' = S.update_state_count
    /\ is_job_array' = S.is_job_array
    /\ merged' = S.merged
    /\ now' = S.now
    /\ last' = [op |-> op, jobs |-> jobs, env |-> env, cmds |-> S.cmds,
                writes |-> S.writes, checks |-> S.checks,
                raised |-> S.raised, msg |-> S.msg, ret |-> S.ret]

\* a call ends before the last tick of the clock
Store(S, op, jobs, env) == S.now <= MaxTime /\ Keep(S, op, jobs, env)

\* a call that got one of the answers enumerated for it ends
Commit(S, op, jobs, env) == ReadsOnly(S, env) /\ Store(S, op, jobs, env)

NoCall ==
    [op |-> "none", jobs |-> <<>>, env |-> DefaultEnv, cmds |-> <<>>,
     writes |-> {}, checks |-> <<>>, raised |-> None, msg |-> <<>>,
     ret |-> None]

Idle == [at |-> "idle"]

\* what sbatch prints: the line with the id, a line without an id, nothing,
\* and the line with the id after a line that has none
SbatchOutputs(j) ==
    {<<"Submitted batch job ", IdWord[j]>>,
     <<"sbatch: error: ", "Submitted batch job ">>,
     <<>>,
     <<"Submitted batch job ", "failed", "Submitted batch job ", IdWord[j]>>}

\* what sbatch prints for a job that is submitted again: also another id,
\* and two lines with an id
ResubmitOutputs(j) ==
    SbatchOutputs(j)
    \cup {<<"Submitted batch job ", "9">>,
          <<"Submitted batch job ", "9", "Submitted batch job ", IdWord[j]>>}

\* submit, for what sbatch prints
Sbatch(j, outputs) ==
    /\ \E ok \in BOOLEAN, stdout \in outputs :
        /\ ~ok => stdout = <<>>
        /\ IF ok /\ submitted_jobid(stdout) # None
           THEN /\ jobid' = [jobid EXCEPT ![j] = submitted_jobid(stdout)]
                /\ update_state_count' =
                       [k \in DOMAIN update_state_count \cup {j} |->
                           IF k = j THEN 0 ELSE update_state_count[k]]
                /\ submit_time' =
                       [k \in DOMAIN submit_time \cup {j} |->
                           IF k = j THEN now ELSE submit_time[k]]
                /\ last' = [NoCall EXCEPT
                               !.op = "submit", !.jobs = <<j>>,
                               !.env = [DefaultEnv EXCEPT !.stdout = stdout],
                               !.cmds = <<<<"sbatch", j>>>>,
                               !.writes = {<<"jobid", j>>}]
           ELSE /\ UNCHANGED <<jobid, update_state_count, submit_time>>
                /\ last' = [NoCall EXCEPT
                               !.op = "submit", !.jobs = <<j>>,
                               !.env = [DefaultEnv EXCEPT !.sbatch_ok = ok,
                                                          !.stdout = stdout],
                               !.cmds = <<<<"sbatch", j>>>>,
                               !.raised = Some(IF ok THEN "JobError"
                                               ELSE "SpawnedProcessError")]
    /\ UNCHANGED <<state, exitcode, nodelist, exception, max_pending_time,
                   options, completion_time, backend, ignore_reqnodenotavail,
                   cancel_reasons, is_cancelling, cancelled,
                   is_job_array, merged, now, pc, cvars>>

\* submit of a job that has no id yet
Submit(j) == pc = Idle /\ jobid[j] = None /\ Sbatch(j, SbatchOutputs(j))

\* submit of a job that has an id from an earlier submit
Resubmit(j) == pc = Idle /\ jobid[j] # None /\ Sbatch(j, ResubmitOutputs(j))

\* the batches the client polls: submitted jobs, each once
Batches(js) ==
    {b \in SeqsUpTo(js, Cardinality(js)) :
        /\ b # <<>>
        /\ \A i, k \in DOMAIN b : i # k => b[i] # b[k]
        /\ \A i \in DOMAIN b : jobid[b[i]] # None}

\* poll of a batch of jobs
Poll(jobs, limit, n) ==
    /\ pc = Idle
    /\ \A i \in DOMAIN jobs : update_state_count[jobs[i]] < limit
    /\ \E env \in PollEnvs(jobs, n) :
          \E S \in {poll(Here, jobs, env)} : Commit(S, "poll", jobs, env)
    /\ UNCHANGED <<confvars, submit_time, pc, cvars>>

\* the answer of a status query that fails: the command exits with an
\* error and prints nothing
FailedQueryEnv ==
    IF backend = "squeue" THEN [DefaultEnv EXCEPT !.squeue_ok = FALSE]
    ELSE [DefaultEnv EXCEPT !.sacct_ok = FALSE]

\* poll of a batch whose sacct or squeue command fails
PollFailed(jobs, limit) ==
    /\ pc = Idle
    /\ \A i \in DOMAIN jobs : update_state_count[jobs[i]] < limit
    /\ \E S \in {poll(Here, jobs, FailedQueryEnv)} :
          Commit(S, "poll", jobs, FailedQueryEnv)
    /\ UNCHANGED <<confvars, submit_time, pc, cvars>>

\* poll of a batch of the two jobs, or of one of them
PollBatch(jobs, limit) ==
    /\ pc = Idle
    /\ \A i \in DOMAIN jobs : update_state_count[jobs[i]] < limit
    /\ \E env \in BatchEnvs(jobs) :
          \E S \in {poll(Here, jobs, env)} : Commit(S, "poll", jobs, env)
    /\ UNCHANGED <<confvars, submit_time, pc, cvars>>

\* cancel(job)
Cancel(j) ==
    /\ pc = Idle
    /\ jobid[j] # None
    /\ \E env \in CancelEnvs :
          \E S \in {cancel(Here, j, env)} : Commit(S, "cancel", <<j>>, env)
    /\ UNCHANGED <<confvars, submit_time, pc, cvars>>

\* completion_time(job)
CompletionTime(j) ==
    /\ pc = Idle
    /\ jobid[j] # None
    /\ \E env \in EndEnvs(j) :
          \E S \in {completion_time_of(Here, j, env)} :
              Commit(S, "completion_time", <<j>>, env)
    /\ UNCHANGED <<confvars, submit_time, pc, cvars>>

\* finished(job)
Finished(j) ==
    /\ pc = Idle
    /\ jobid[j] # None
    /\ \E env \in CancelEnvs :
          \E S \in {finished(Here, j, env)} : Commit(S, "finished", <<j>>, env)
    /\ UNCHANGED <<confvars, submit_time, pc, cvars>>

\* wait(job) is entered
WaitEnter(j, limit, n) ==
    /\ pc = Idle
    /\ jobid[j] # None
    /\ \E env \in PollEnvs(<<j>>, n) :
          \E S \in {wait_enter(Here, j, env)} :
              /\ S.update_state_count[j] <= limit
              /\ Commit(S, "wait", <<j>>, env)
              /\ pc' = IF Raised(S) \/ S.ret # None THEN Idle
                       ELSE [at |-> "wait", job |-> j, k |-> 1]
    /\ UNCHANGED <<confvars, submit_time, cvars>>

\* wait(job) tests its loop condition
WaitLoop(limit, n) ==
    /\ pc # Idle
    /\ \E env \in PollEnvs(<<pc.job>>, n) \cup CancelEnvs :
          \E S \in {wait_loop(Here, pc.job, pc.k, env)} :
              /\ S.update_state_count[pc.job] <= limit
              /\ Commit(S, "wait", <<pc.job>>, env)
              /\ pc' = IF Raised(S) \/ S.ret # None THEN Idle
                       ELSE [pc EXCEPT !.k = (@ % Len(intervals)) + 1]
    /\ UNCHANGED <<confvars, submit_time, cvars>>

\* a job whose fields are all unset but its name and its output files
PlainJob ==
    [name |-> Some(<<"t1">>), num_tasks |-> None, num_tasks_per_node |-> None,
     num_tasks_per_core |-> None, num_tasks_per_socket |-> None,
     num_cpus_per_task |-> None, sched_partition |-> None,
     sched_account |-> None, sched_nodelist |-> None,
     sched_exclude_nodelist |-> None, sched_reservation |-> None,
     stdout |-> Some(<<"t1.out">>), stderr |-> Some(<<"t1.err">>),
     time_limit |-> None, sched_exclusive_access |-> None, use_smt |-> None,
     sched_access |-> <<>>]

\* emit_preamble(job), for a job with the fields of the record job
EmitPreamble(j, job, use_nodes_opt) ==
    /\ pc = Idle
    /\ \E S \in {emit_preamble(Here, j, job, use_nodes_opt)} :
          Commit(S, "emit_preamble", <<j>>, DefaultEnv)
    /\ UNCHANGED <<confvars, submit_time, pc, cvars>>

\* the client assigns job.options
SetOptions(j, opts) ==
    /\ pc = Idle
    /\ options[j] # opts
    /\ options' = [options EXCEPT ![j] = opts]
    /\ last' = [NoCall EXCEPT !.op = "set_options", !.jobs = <<j>>]
    /\ UNCHANGED <<jobid, state, exitcode, nodelist, max_pending_time,
                   exception, completion_time, bvars, now, pc, cvars>>

\* the errors a client may have caught while polling in the background
StashedErrors == {"JobBlockedError", "JobError", "SpawnedProcessError"}

\* the client stores an error it caught in job.exception
Stash(j) ==
    /\ pc = Idle
    /\ jobid[j] # None
    /\ exception[j] = None
    /\ \E e \in StashedErrors : exception' = [exception EXCEPT ![j] = Some(e)]
    /\ last' = [NoCall EXCEPT !.op = "stash", !.jobs = <<j>>]
    /\ UNCHANGED <<jobid, state, exitcode, nodelist, max_pending_time, options,
                   completion_time, bvars, now, pc, cvars>>

\* a second passes; the clock is read only against the submit time of a job
\* and starts with the first submit
Tick ==
    /\ DOMAIN submit_time # {}
    /\ now < MaxTime
    /\ now' = now + 1
    /\ last' = [NoCall EXCEPT !.op = "tick"]
    /\ UNCHANGED <<jvars, bvars, pc, cvars>>

\* a second passes, whether a job was submitted or not
ClockTick ==
    /\ now < MaxTime
    /\ now' = now + 1
    /\ last' = [NoCall EXCEPT !.op = "tick"]
    /\ UNCHANGED <<jvars, bvars, pc, cvars>>

----------------------------------------------------------------------------
(* The classifier on its own *)

MaxLen == 3     \* symbols in a classified state string

StateAlphabet == completion_states \cup pending_states \cup {"RUNNING", ","}

ClsIdle == arg = None /\ verdict = None

ClsInit ==
    /\ arg \in {None} \cup {Some(s) : s \in SeqsUpTo(StateAlphabet, MaxLen)}
    /\ verdict = None

Classify ==
    /\ verdict = None
    /\ verdict' = Some([completed |-> slurm_state_completed(arg),
                        pending |-> slurm_state_pending(arg)])
    /\ UNCHANGED <<arg, mvars>>

----------------------------------------------------------------------------
(* filternodes on its own: a cluster of three nodes in two partitions       *)

Node1 ==
    NodeDescrFull(Some(<<"nid01">>), Some(<<"IDLE">>), Some(<<"p1">>),
                  Some(<<"f1">>))

Node2 ==
    NodeDescrFull(Some(<<"nid02">>), Some(<<"IDLE">>),
                  Some(<<"p1", ",", "p2">>), Some(<<"f1", ",", "f2">>))

Node3 == NodeDescrFull(Some(<<"nid03">>), Some(<<"IDLE">>), Some(<<"p2">>), None)

\* the second node as a later query describes it, moved out of partition p1
Node2Moved ==
    NodeDescrFull(Some(<<"nid02">>), Some(<<"IDLE">>), Some(<<"p2">>),
                  Some(<<"f1">>))

\* a node that is not among the candidates
Node9 ==
    NodeDescrFull(Some(<<"nid09">>), Some(<<"IDLE">>), Some(<<"p1">>),
                  Some(<<"f1">>))

\* the candidates: any of the nodes allnodes() returns
FilterCandidates == SUBSET _create_nodes(<<Node1, Node2, Node3>>)

Opt(flag, value) == <<flag, "=">> \o value

\* job.options
FilterOptionLists ==
    {<<>>,
     <<Opt("-p", <<"p1">>)>>,
     <<Opt("-p", <<>>)>>,
     <<Opt("--partition", <<"p1", ",", "p2">>)>>,
     <<Opt("-p", <<"p2">>), Opt("-p", <<"p1">>)>>,
     <<Opt("-C", <<"f1", "&", "f2">>)>>,
     <<Opt("--constraint", <<"f1">>), Opt("-w", <<"nid0[1-2]">>)>>,
     <<Opt("-x", <<"nid02">>)>>,
     <<Opt("--reservation", <<"r1">>)>>,
     <<Opt("--reservation", <<"r1">>), Opt("-p", <<"p1">>),
       Opt("-C", <<"f1">>), Opt("-w", <<"nid0[1-3]">>),
       Opt("-x", <<"nid02">>)>>}

\* the jobs: options alone, and the sched_* fields on top of options
FilterJobs ==
    {[options |-> o, sched_partition |-> None, sched_nodelist |-> None,
      sched_exclude_nodelist |-> None, sched_reservation |-> None] :
        o \in FilterOptionLists}
    \cup {[options |-> o, sched_partition |-> sp, sched_nodelist |-> sn,
           sched_exclude_nodelist |-> sx, sched_reservation |-> sr] :
             o \in {<<>>, <<Opt("-p", <<"p1">>)>>},
             sp \in {None, Some(<<"p2">>)},
             sn \in {None, Some(<<"nid0[1-2]">>)},
             sx \in {None, Some(<<"nid03">>)},
             sr \in {None, Some(<<"r1">>)}}

\* what scontrol answers about the reservation, the partitions and the nodes
\* named in the node list and in the exclude list
FilterEnvs ==
    {[res_ok |-> r.ok, res_nodes |-> r.nodes, res_nodes_ok |-> r.nodes_ok,
      res_descr |-> r.descr, partitions_ok |-> p.ok, partitions_out |-> p.out,
      nodelist_descr |-> w, exclude_descr |-> x] :
        r \in {[ok |-> FALSE, nodes |-> None, nodes_ok |-> TRUE, descr |-> <<>>],
               [ok |-> TRUE, nodes |-> None, nodes_ok |-> TRUE, descr |-> <<>>],
               [ok |-> TRUE, nodes |-> Some(<<"Nodes=nid0[1-2]">>),
                nodes_ok |-> FALSE, descr |-> <<>>],
               [ok |-> TRUE, nodes |-> Some(<<"Nodes=nid0[1-2]">>),
                nodes_ok |-> TRUE, descr |-> <<Node1, Node2>>],
               [ok |-> TRUE, nodes |-> Some(<<"Nodes=nid0[1-9]">>),
                nodes_ok |-> TRUE, descr |-> <<Node2Moved, Node3, Node9>>]},
        p \in {[ok |-> FALSE, out |-> <<>>],
               [ok |-> TRUE,
                out |-> <<[PartitionName |-> <<"p1">>, Default |-> "NO"],
                          [PartitionName |-> <<"p2">>, Default |-> "NO"]>>],
               [ok |-> TRUE,
                out |-> <<[PartitionName |-> <<"p1">>, Default |-> "NO"],
                          [PartitionName |-> <<"p2">>, Default |-> "YES"]>>]},
        w \in {<<>>, <<Node1, Node2>>, <<Node1, Node2Moved, Node3, Node9>>},
        x \in {<<>>, <<Node2>>, <<Node3, Node9>>}}

FilterInit ==
    /\ arg \in {Some([job |-> j, nodes |-> c, env |-> e]) :
                   j \in FilterJobs, c \in FilterCandidates, e \in FilterEnvs}
    /\ verdict = None

\* filternodes(job, nodes)
FilterNodes ==
    /\ verdict = None
    /\ verdict' = Some(filternodes(Val(arg).job, Val(arg).nodes, Val(arg).env))
    /\ UNCHANGED <<arg, mvars>>

----------------------------------------------------------------------------
(* Slurm as a function of time: what sacct and squeue would print about a   *)
(* job at each second after its submit.  The calls of a client that polls   *)
(* and then waits read it at the time they run their command; the sequence  *)
(* of calls ends at the first error and when wait returns.                  *)

Phase(kind, reason) == [kind |-> kind, reason |-> reason]

PhasePending(reason) ==
    Phase([state |-> <<"PENDING">>, exitcode |-> "0",
           nodespec |-> <<"None assigned">>], reason)

PhaseRunning ==
    Phase([state |-> <<"RUNNING">>, exitcode |-> "0", nodespec |-> <<"nid001">>],
          <<"None">>)

PhaseEnded(st, code) ==
    Phase([state |-> <<st>>, exitcode |-> str(code), nodespec |-> <<"nid001">>],
          <<"None">>)

WorldTimes == 0..MaxTime

\* a job that is pending for a reason, then runs, then ends; and a job that
\* is requeued after it ended once
Worlds ==
    {[t \in WorldTimes |->
         IF t < t1 THEN PhasePending(r)
         ELSE IF t < t2 THEN PhaseRunning
         ELSE x] :
     r \in {<<"Priority">>, <<"PartitionDown">>},
     x \in {PhaseEnded("COMPLETED", 0), PhaseEnded("FAILED", MaxExit)},
     t1 \in WorldTimes, t2 \in WorldTimes}
    \cup {[t \in WorldTimes |->
              IF t = 0 THEN PhaseEnded("COMPLETED", 0)
              ELSE IF t = 1 THEN PhaseRunning
              ELSE PhaseEnded("FAILED", MaxExit)]}

\* what the commands answer about job j in a phase: sacct prints the record
\* of the job, squeue prints a line while the job is pending or running and
\* the reason while it is pending
EnvIn(ph, j) ==
    IF backend = "squeue"
    THEN [DefaultEnv EXCEPT !.out =
             IF WordIn(ph.kind.state, completion_states) THEN <<>>
             ELSE <<[jobid |-> <<IdWord[j]>>, state |-> ph.kind.state,
                     nodespec |-> IF ph.kind.state = <<"PENDING">> THEN <<>>
                                  ELSE ph.kind.nodespec,
                     reason |-> ph.reason]>>]
    ELSE [DefaultEnv EXCEPT
             !.out = <<SacctHeader,
                       [jobid |-> <<IdWord[j]>>, state |-> ph.kind.state,
                        exitcode |-> ph.kind.exitcode, signal |-> "0",
                        nodespec |-> ph.kind.nodespec]>>,
             !.reasons = IF ph.kind.state = <<"PENDING">> THEN <<ph.reason>>
                         ELSE <<>>]

\* the world the client runs in
World == Val(arg)

WorldInit == arg \in {Some(w) : w \in Worlds} /\ verdict = None

\* the sequence of calls has not ended
Calling == last.raised = None /\ ~(last.op = "wait" /\ pc = Idle)

WorldSubmit(j) == Calling /\ Submit(j)

WorldTick == Calling /\ pc = Idle /\ Tick

\* poll(job), reading the world at the time squeue or sacct is run
WorldPoll(j, limit) ==
    /\ Calling
    /\ pc = Idle
    /\ jobid[j] # None
    /\ update_state_count[j] < limit
    /\ \E t \in WorldTimes : \E env \in {EnvIn(World[t], j)} :
          \E S \in {poll(Here, <<j>>, env)} :
              /\ S.now = t
              /\ Store(S, "poll", <<j>>, env)
    /\ UNCHANGED <<confvars, submit_time, pc, cvars>>

\* wait(job) is entered
WorldWaitEnter(j, limit) ==
    /\ Calling
    /\ pc = Idle
    /\ jobid[j] # None
    /\ \E t \in WorldTimes : \E env \in {EnvIn(World[t], j)} :
          \E S \in {wait_enter(Here, j, env)} :
              /\ S.now = t
              /\ S.update_state_count[j] <= limit
              /\ Store(S, "wait", <<j>>, env)
              /\ pc' = IF Raised(S) \/ S.ret # None THEN Idle
                       ELSE [at |-> "wait", job |-> j, k |-> 1]
    /\ UNCHANGED <<confvars, submit_time, cvars>>

\* wait(job) tests its loop condition
WorldWaitLoop(limit) ==
    /\ Calling
    /\ pc # Idle
    /\ \E t \in WorldTimes : \E env \in {EnvIn(World[t], pc.job)} :
          \E S \in {wait_loop(Here, pc.job, pc.k, env)} :
              /\ S.now = t
              /\ S.update_state_count[pc.job] <= limit
              /\ Store(S, "wait", <<pc.job>>, env)
              /\ pc' = IF Raised(S) \/ S.ret # None THEN Idle
                       ELSE [pc EXCEPT !.k = (@ % Len(intervals)) + 1]
    /\ UNCHANGED <<confvars, submit_time, cvars>>

----------------------------------------------------------------------------
(* wait(job) over a longer time.  The accounting record of the job is a    *)
(* function of time that settles: from a time on, sacct prints records     *)
(* with final states only.                                                 *)

MaxWaitTime == 8    \* last tick of the clock of a long wait

WaitTimes == 0..MaxWaitTime

\* sacct about job j: its records have the given states, a job of one record
\* or an array of several; no state, no record
SacctAbout(j, states) ==
    [DefaultEnv EXCEPT !.out =
        <<SacctHeader>>
        \o [i \in DOMAIN states |->
               [jobid |-> IdField(IdWord[j], i, Len(states)),
                state |-> <<states[i]>>, exitcode |-> "0", signal |-> "0",
                nodespec |-> IF states[i] = "PENDING"
                             THEN <<"None assigned">> ELSE <<"nid001">>]]]

\* what sacct prints before the record settles, None for a sacct that fails
UnsettledStates ==
    {None, Some(<<>>), Some(<<"PENDING">>), Some(<<"RUNNING">>),
     Some(<<"COMPLETED", "RUNNING">>)}

\* what sacct prints once the record has settled
SettledStates == {<<"COMPLETED">>, <<"COMPLETED", "FAILED">>}

\* the record settles at a time of the clock, or after its last tick
WaitWorlds ==
    {[at |-> t, before |-> b, after |-> a] :
        t \in 0..(MaxWaitTime + 1), b \in UnsettledStates,
        a \in SettledStates}

\* the answer of sacct about job j at time t in world w
AnswerAt(w, j, t) ==
    IF t >= w.at THEN SacctAbout(j, w.after)
    ELSE IF w.before = None THEN [DefaultEnv EXCEPT !.sacct_ok = FALSE]
    ELSE SacctAbout(j, Val(w.before))

\* a second passes before wait(job) is called
LongTick ==
    /\ pc = Idle
    /\ last.op \in {"submit", "tick"}
    /\ jobid["j1"] # None
    /\ now < MaxWaitTime
    /\ now' = now + 1
    /\ last' = [NoCall EXCEPT !.op = "tick"]
    /\ UNCHANGED <<jvars, bvars, pc, cvars>>

\* wait(job) is called, once
LongWaitEnter(j) ==
    /\ pc = Idle
    /\ last.op \in {"submit", "tick"}
    /\ jobid[j] # None
    /\ \E t \in WaitTimes : \E env \in {AnswerAt(World, j, t)} :
          \E S \in {wait_enter(Here, j, env)} :
              /\ S.now = t
              /\ Keep(S, "wait", <<j>>, env)
              /\ pc' = IF Raised(S) \/ S.ret # None THEN Idle
                       ELSE [at |-> "wait", job |-> j, k |-> 1]
    /\ UNCHANGED <<confvars, submit_time, cvars>>

\* the time at which a test of the loop condition ends: at once, or after
\* the sleep that comes before the poll
LoopEndTime ==
    IF \/ slurm_state_completed(state[pc.job])
       \/ pending_too_long(Here, pc.job)
    THEN now
    ELSE now + intervals[pc.k]

\* wait(job) tests its loop condition
LongWaitLoop ==
    /\ pc # Idle
    /\ \E t \in {LoopEndTime} \cap WaitTimes :
       \E env \in {AnswerAt(World, pc.job, t)} :
          \E S \in {wait_loop(Here, pc.job, pc.k, env)} :
              /\ S.now = t
              /\ Keep(S, "wait", <<pc.job>>, env)
              /\ pc' = IF Raised(S) \/ S.ret # None THEN Idle
                       ELSE [pc EXCEPT !.k = (@ % Len(intervals)) + 1]
    /\ UNCHANGED <<confvars, submit_time, cvars>>

----------------------------------------------------------------------------
(* Specifications *)

EmptyDict == [k \in {} |-> 0]

\* the state after construction of the scheduler and of the jobs, for the
\* given choice of max_pending_time and options of the jobs
MainInit(mpts, opts) ==
    /\ backend \in {"slurm", "squeue"}
    /\ ignore_reqnodenotavail \in BOOLEAN
    /\ cancel_reasons = init_cancel_reasons(ignore_reqnodenotavail)
    /\ jobid = [j \in Jobs |-> None]
    /\ state = [j \in Jobs |-> None]
    /\ exitcode = [j \in Jobs |-> None]
    /\ nodelist = [j \in Jobs |-> None]
    /\ exception = [j \in Jobs |-> None]
    /\ completion_time = [j \in Jobs |-> None]
    /\ max_pending_time \in [Jobs -> mpts]
    /\ options \in [Jobs -> opts]
    /\ is_cancelling = {}
    /\ cancelled = {}
    /\ update_state_count = EmptyDict
    /\ submit_time = EmptyDict
    /\ is_job_array = EmptyDict
    /\ merged = {}
    /\ now = 0
    /\ pc = Idle
    /\ last = NoCall

\* the whole interface, the clock running, for one job and a few polls
FullJobs == {"j1"}

Init ==
    /\ MainInit({None, Some(0), Some(2)}, {<<>>})
    /\ \A j \in Jobs \ FullJobs :
          max_pending_time[j] = None /\ options[j] = <<>>
    /\ ClsIdle

Next ==
    \/ \E j \in FullJobs : Submit(j)
    \/ \E jobs \in Batches(FullJobs) : Poll(jobs, MaxPolls, 1)
    \/ \E j \in FullJobs : Cancel(j)
    \/ \E j \in FullJobs : Finished(j)
    \/ \E j \in FullJobs : CompletionTime(j)
    \/ \E j \in FullJobs : WaitEnter(j, MaxPolls, 1)
    \/ WaitLoop(MaxPolls, 1)
    \/ \E j \in FullJobs : Stash(j)
    \/ Tick

Spec == Init /\ [][Next]_vars

\* submit, poll and cancel alone, the clock moving only when poll sleeps, for
\* enough polls to reach the squeue query of the sacct backend
LongJobs == {"j1"}

InitPoll == MainInit({None}, {<<>>}) /\ ClsIdle

NextPoll ==
    \/ \E j \in LongJobs : Submit(j)
    \/ \E jobs \in Batches(LongJobs) : Poll(jobs, MaxPollsLong, MaxLines)
    \/ \E j \in LongJobs : Cancel(j)

SpecPoll == InitPoll /\ [][NextPoll]_vars

\* the classifier applied to every state string of the bounded alphabet
InitCls ==
    /\ MainInit({None}, {<<>>})
    /\ backend = "slurm"
    /\ ignore_reqnodenotavail = FALSE
    /\ ClsInit

NextCls == Classify

SpecCls == InitCls /\ [][NextCls]_vars

\* two jobs polled in batches, up to the squeue query of the sacct backend;
\* no reason names nodes here, so ignore_reqnodenotavail keeps its default
InitBatch ==
    MainInit({None}, {<<>>}) /\ ignore_reqnodenotavail = FALSE /\ ClsIdle

BatchCancelled == {"j2"}

NextBatch ==
    \/ \E j \in Jobs : Submit(j)
    \/ \E jobs \in {b \in Batches(Jobs) : Len(b) = Cardinality(Jobs)} :
          PollBatch(jobs, MaxPollsLong)
    \/ \E j \in BatchCancelled : Cancel(j)

SpecBatch == InitBatch /\ [][NextBatch]_vars

\* polls of a batch of two jobs, the status query failing at any poll
NextQuery ==
    \/ \E j \in Jobs : Submit(j)
    \/ \E jobs \in {b \in Batches(Jobs) : Len(b) = Cardinality(Jobs)} :
          PollBatch(jobs, MaxPollsLong)
    \/ \E jobs \in {b \in Batches(Jobs) : Len(b) = Cardinality(Jobs)} :
          PollFailed(jobs, MaxPollsLong)
    \/ \E j \in BatchCancelled : Cancel(j)

SpecQuery == InitBatch /\ [][NextQuery]_vars

\* a job whose options the client may change between emit_preamble, submit
\* and wait
ArrayJobs == {"j1"}

InitArray ==
    /\ MainInit({None}, ArrayOptions)
    /\ \A j \in Jobs \ ArrayJobs : options[j] = <<>>
    /\ ClsIdle

NextArray ==
    \/ \E j \in ArrayJobs : EmitPreamble(j, PlainJob, FALSE)
    \/ \E j \in ArrayJobs : \E opts \in ArrayOptions : SetOptions(j, opts)
    \/ \E j \in ArrayJobs : Submit(j)
    \/ \E j \in ArrayJobs : WaitEnter(j, MaxPolls, 1)
    \/ WaitLoop(MaxPolls, 1)

SpecArray == InitArray /\ [][NextArray]_vars

\* emit_preamble as a function of the job: the fragments of sched_access and
\* of job.options are drawn at the start and emit_preamble is applied to them
MaxFragments == 2

\* fragments of job.options: --constraint=f1, -Cf2, '-C f3', --constraint=,
\* ' -Cf1', --gres=g, '#DW x', '--constraint f1', -C, f4, '-C ' and
\* '#SBATCH --constraint=f5'
OptionFragments ==
    {<<"--constraint", "=", "f1">>, <<"-C", "f2">>, <<"-C", " ", "f3">>,
     <<"--constraint", "=">>, <<" ", "-C", "f1">>, <<"--gres", "=", "g">>,
     <<"#DW", " ", "x">>, <<"--constraint", " ", "f1">>, <<"-C">>,
     <<"f4">>, <<"-C", " ">>,
     <<"#SBATCH", " ", "--constraint", "=", "f5">>}

\* fragments of sched_access
AccessFragments ==
    {<<"--constraint", "=", "a1">>, <<"-C", "a2">>, <<"-C">>,
     <<"--gres", "=", "g">>, <<"--constraint", " ", "a3">>, <<"a4">>}

FragmentLists(frags) ==
    UNION {[1..n -> frags] : n \in 0..MaxFragments}

PreambleJobs ==
    {[PlainJob EXCEPT !.sched_access = a, !.use_smt = h] :
        a \in FragmentLists(AccessFragments), h \in {None, Some(TRUE)}}

InitPreamble ==
    /\ MainInit({None}, FragmentLists(OptionFragments))
    /\ backend = "slurm"
    /\ ignore_reqnodenotavail = FALSE
    /\ options["j2"] = <<>>
    /\ arg \in {Some(job) : job \in PreambleJobs}
    /\ verdict = None

NextPreamble ==
    \E use_nodes_opt \in BOOLEAN :
        EmitPreamble("j1", Val(arg), use_nodes_opt)

SpecPreamble == InitPreamble /\ [][NextPreamble]_vars

\* submit and cancel of two jobs, a job being submitted any number of times
InitSubmit == MainInit({None}, {<<>>}) /\ ClsIdle

NextSubmit ==
    \/ \E j \in Jobs : Submit(j)
    \/ \E j \in Jobs : Resubmit(j)
    \/ \E j \in Jobs : Cancel(j)
    \/ ClockTick

SpecSubmit == InitSubmit /\ [][NextSubmit]_vars

\* a client that submits a job, polls it any number of times and waits for
\* it, Slurm being a function of time
WorldJobs == {"j1"}

InitWorld ==
    /\ MainInit({None, Some(2)}, ArrayOptions)
    /\ \A j \in Jobs \ WorldJobs :
          max_pending_time[j] = None /\ options[j] = <<>>
    /\ WorldInit

NextWorld ==
    \/ \E j \in WorldJobs : WorldSubmit(j)
    \/ \E j \in WorldJobs : WorldPoll(j, MaxPollsLong)
    \/ \E j \in WorldJobs : WorldWaitEnter(j, MaxPollsLong)
    \/ WorldWaitLoop(MaxPollsLong)
    \/ WorldTick

SpecWorld == InitWorld /\ [][NextWorld]_vars

\* a client of the sacct backend that submits a job and, at some later time,
\* waits for it, the accounting record of the job settling at some time
InitWait ==
    /\ MainInit({None, Some(2)}, {<<>>})
    /\ backend = "slurm"
    /\ ignore_reqnodenotavail = FALSE
    /\ max_pending_time["j2"] = None
    /\ options["j2"] = <<>>
    /\ arg \in {Some(w) : w \in WaitWorlds}
    /\ verdict = None

NextWait ==
    \/ Submit("j1")
    \/ LongTick
    \/ LongWaitEnter("j1")
    \/ LongWaitLoop

SpecWait == InitWait /\ [][NextWait]_vars

\* the same client, wait(job) going on with its loop: the loop is sequential
\* code whose sleep and commands return, so an iteration that can be taken
\* is taken
SpecWaitFair == SpecWait /\ WF_vars(LongWaitLoop)

\* filternodes applied to every job, set of candidates and set of answers
InitFilter ==
    /\ MainInit({None}, {<<>>})
    /\ backend = "slurm"
    /\ ignore_reqnodenotavail = FALSE
    /\ FilterInit

NextFilter == FilterNodes

SpecFilter == InitFilter /\ [][NextFilter]_vars

----------------------------------------------------------------------------
(* Properties of the state classifier, under SpecCls *)

\* the two answers, once the classifier has been applied to arg
Answered == verdict # None

\* the states the classifier is documented to tell apart
TerminalStates ==
    {"BOOT_FAIL", "CANCELLED", "COMPLETED", "DEADLINE", "FAILED", "NODE_FAIL",
     "OUT_OF_MEMORY", "PREEMPTED", "TIMEOUT"}

PendingStates ==
    {"COMPLETING", "CONFIGURING", "PENDING", "RESV_DEL_HOLD", "REQUEUE_FED",
     "REQUEUE_HOLD", "REQUEUED", "RESIZING", "REVOKED", "SIGNALING",
     "SPECIAL_EXIT", "STAGE_OUT", "STOPPED", "SUSPENDED"}

\* position i of the text holds a whole comma-separated token, the word w
TokenAt(s, i, w) ==
    /\ s[i] = w
    /\ i = 1 \/ s[i - 1] = ","
    /\ i = Len(s) \/ s[i + 1] = ","

\* the text is words of W separated by single commas, and is not empty
AllTokensIn(s, W) ==
    /\ Len(s) % 2 = 1
    /\ \A i \in DOMAIN s : IF i % 2 = 1 THEN s[i] \in W ELSE s[i] = ","

\* C4: for every comma-joined state string, over terminal, pending and other
\* tokens and the empty token, and for the unset state: if the string is
\* classified completed it is not classified pending.
C4_CompletedNotPending ==
    Answered => (Val(verdict).completed => ~Val(verdict).pending)

\* C4 witness: an array state of two terminal sub-states was classified
\* completed
C4_Witness ==
    /\ Answered
    /\ arg = Some(<<"BOOT_FAIL", ",", "TIMEOUT">>)
    /\ Val(verdict).completed

\* C5: completed(s) holds exactly when s is not empty and every
\* comma-separated token is one of the nine terminal states; pending(s) holds
\* exactly when some token is one of the fourteen pending states; in
\* particular "COMPLETED,PENDING" is pending and not completed,
\* "COMPLETED,FAILED" is completed and not pending, and "" is neither.
C5_ClassifierExact ==
    Answered =>
        /\ Val(verdict).completed =
               (arg # None /\ AllTokensIn(Val(arg), TerminalStates))
        /\ Val(verdict).pending =
               (arg # None /\ \E i \in DOMAIN Val(arg), w \in PendingStates :
                                  TokenAt(Val(arg), i, w))
        /\ arg = Some(<<"COMPLETED", ",", "PENDING">>) =>
               ~Val(verdict).completed /\ Val(verdict).pending
        /\ arg = Some(<<"COMPLETED", ",", "FAILED">>) =>
               Val(verdict).completed /\ ~Val(verdict).pending
        /\ arg = Some(<<>>) =>
               ~Val(verdict).completed /\ ~Val(verdict).pending

\* C5 witness: one pending sub-state of an array was classified
C5_Witness ==
    /\ Answered
    /\ arg = Some(<<"COMPLETED", ",", "PENDING">>)
    /\ ~Val(verdict).completed
    /\ Val(verdict).pending

----------------------------------------------------------------------------
(* Properties of poll, under SpecPoll *)

\* the lines of an output that are about job j or about a member of its
\* array: the id field is the id of the job, alone or followed by _<index>
LinesIn(out, j) ==
    SelectSeq(out, LAMBDA l :
        /\ jobid[j] # None
        /\ l.jobid[1] = str(Val(jobid[j]))
        /\ Len(l.jobid) = 1 \/ (Len(l.jobid) \in {3, 7} /\ l.jobid[2] = "_"))

\* the call just made was a poll of a batch that holds job j
Polled(c, j) == c.op = "poll" /\ j \in Range(c.jobs)

HasNonTerminalLine(out, j) ==
    \E i \in DOMAIN LinesIn(out, j) :
        ~WordIn(LinesIn(out, j)[i].state, TerminalStates)

IsMaxExitcode(m, lines) ==
    /\ \E i \in DOMAIN lines : int(lines[i].exitcode) = m
    /\ \A i \in DOMAIN lines : int(lines[i].exitcode) <= m

\* C3: every write of job.exitcode by poll comes with a write of job.state in
\* the same poll, to a state classified completed; in the sacct backend the
\* value written is the maximum of the exit codes of the lines matched for
\* the job and the members of its array.
C3_ExitcodeOnlyWhenCompleted ==
    \A j \in Jobs :
        (last.op = "poll" /\ <<"exitcode", j>> \in last.writes) =>
            /\ <<"state", j>> \in last.writes
            /\ slurm_state_completed(state[j])
            /\ exitcode[j] # None
            /\ backend = "slurm" =>
                   IsMaxExitcode(Val(exitcode[j]), LinesIn(last.env.out, j))

\* C3 witness: sacct printed two members of an array, the first with exit
\* code 0 and the second with a larger one, and poll wrote the larger
C3_Witness ==
    /\ backend = "slurm"
    /\ last.op = "poll"
    /\ <<"exitcode", "j1">> \in last.writes
    /\ Len(LinesIn(last.env.out, "j1")) = 2
    /\ LinesIn(last.env.out, "j1")[1].exitcode = "0"
    /\ exitcode["j1"] = Some(1)

RanScancel(c, j) == \E i \in DOMAIN c.cmds : c.cmds[i] = <<"scancel", j>>

\* C10: in the squeue backend a poll whose output has no line for a job of
\* the batch sets the state of the job to CANCELLED when the job is in
\* cancelled and to COMPLETED otherwise, and writes exit code 0 exactly when
\* the exit code was unset; a job enters cancelled only in a call that ran
\* scancel for it with success, every successful cancel of the backend puts
\* it there, and no job leaves the set.
C10_AbsentJob ==
    [][\A j \in Jobs :
          /\ ( /\ backend = "squeue"
               /\ Polled(last', j)
               /\ last'.raised = None
               /\ LinesIn(last'.env.out, j) = <<>> )
             => /\ state'[j] = Some(IF j \in cancelled THEN <<"CANCELLED">>
                                    ELSE <<"COMPLETED">>)
                /\ exitcode'[j] =
                       IF exitcode[j] = None THEN Some(0) ELSE exitcode[j]
                /\ (<<"exitcode", j>> \in last'.writes) = (exitcode[j] = None)
          /\ (j \in cancelled' /\ j \notin cancelled)
             => /\ backend = "squeue"
                /\ RanScancel(last', j)
                /\ last'.env.scancel_ok
          /\ ( /\ backend = "squeue"
               /\ last'.op = "cancel"
               /\ last'.jobs = <<j>>
               /\ last'.raised = None )
             => j \in cancelled'
          /\ j \in cancelled => j \in cancelled']_vars

\* C10 witness: a job that had an exit code and was cancelled is absent from
\* the output of squeue; its state is CANCELLED and its exit code was kept
C10_Witness ==
    /\ backend = "squeue"
    /\ Polled(last, "j1")
    /\ LinesIn(last.env.out, "j1") = <<>>
    /\ "j1" \in cancelled
    /\ state["j1"] = Some(<<"CANCELLED">>)
    /\ exitcode["j1"] = Some(0)
    /\ <<"exitcode", "j1">> \notin last.writes

----------------------------------------------------------------------------
(* Properties of the reason-based cancel policy, under SpecPoll *)

\* the text before the first comma of a reason description, and the text
\* after it when there is a comma
ReasonOf(r) ==
    IF \E i \in DOMAIN r : r[i] = ","
    THEN SubSeq(r, 1, Min({i \in DOMAIN r : r[i] = ","}) - 1)
    ELSE r

DetailsOf(r) ==
    IF \E i \in DOMAIN r : r[i] = ","
    THEN Some(SubSeq(r, Min({i \in DOMAIN r : r[i] = ","}) + 1, Len(r)))
    ELSE None

InCancelSet(r) == Len(ReasonOf(r)) = 1 /\ ReasonOf(r)[1] \in cancel_reasons

\* the reason is ReqNodeNotAvail and its details read UnavailableNodes:<names>
NamesUnavailable(r) ==
    /\ ReasonOf(r) = <<"ReqNodeNotAvail">>
    /\ DetailsOf(r) # None
    /\ strip(Val(DetailsOf(r))) # <<>>
    /\ strip(Val(DetailsOf(r)))[1] = "UnavailableNodes:"

NodeNames(r) == NonSpacePrefix(Tail(strip(Val(DetailsOf(r)))))

\* a node named in the reply of scontrol has a state among the down states
SomeNodeDown(reply) ==
    \E i \in DOMAIN reply :
        /\ reply[i].NodeName # None
        /\ reply[i].State # None
        /\ \E k \in DOMAIN Val(reply[i].State) :
              Val(reply[i].State)[k] \in {"DOWN", "DRAIN", "MAINT", "NO_RESPOND"}

\* the block is taken to be transient
Transient(r, env) ==
    NamesUnavailable(r) /\ (NodeNames(r) = <<>> \/ ~SomeNodeDown(env.scontrol))

\* the message carries the reason and, when there are any, the details
Carries(msg, r) ==
    /\ msg # <<>>
    /\ Tail(msg) = ReasonOf(r) \o (IF DetailsOf(r) = None THEN <<>>
                                   ELSE <<",", " ">> \o Val(DetailsOf(r)))

\* the call of _check_and_cancel ran scancel for its job, as its last command
IssuedCancel(c) ==
    c.cmds # <<>> /\ c.cmds[Len(c.cmds)] = <<"scancel", c.job>>

\* C6, as claimed: a call of _check_and_cancel whose reason is in the
\* cancel-reason set, the block not being transient, cancels the job and
\* then raises JobBlockedError with the reason and the details; whenever it
\* raises JobBlockedError the job is in is_cancelling; a call whose reason
\* is not in the set runs no command and raises nothing.
C6_CancelThenRaise ==
    \A k \in DOMAIN last.checks :
        LET c == last.checks[k]
        IN  /\ (InCancelSet(c.reason_descr) /\ ~Transient(c.reason_descr, last.env))
                   => /\ IssuedCancel(c)
                      /\ c.raised = Some("JobBlockedError")
                      /\ Carries(last.msg, c.reason_descr)
            /\ c.raised = Some("JobBlockedError") => c.job \in is_cancelling
            /\ ~InCancelSet(c.reason_descr) => c.cmds = <<>> /\ c.raised = None

\* C6, amended: such a call runs scancel for the job; when scancel succeeds
\* the job is put in is_cancelling and JobBlockedError is raised with the
\* reason and the details; when scancel fails the error of the command is
\* raised instead, and the job is not put in is_cancelling.  Whenever
\* JobBlockedError is raised the job is in is_cancelling; a call whose reason
\* is not in the set runs no command and raises nothing.
C6_CancelThenRaiseIfCancelled ==
    \A k \in DOMAIN last.checks :
        LET c == last.checks[k]
        IN  /\ (InCancelSet(c.reason_descr) /\ ~Transient(c.reason_descr, last.env))
                   => /\ IssuedCancel(c)
                      /\ IF last.env.scancel_ok
                         THEN /\ c.raised = Some("JobBlockedError")
                              /\ Carries(last.msg, c.reason_descr)
                              /\ c.job \in is_cancelling
                         ELSE /\ c.raised = Some("SpawnedProcessError")
                              /\ c.job \notin is_cancelling
            /\ c.raised = Some("JobBlockedError") => c.job \in is_cancelling
            /\ ~InCancelSet(c.reason_descr) => c.cmds = <<>> /\ c.raised = None

\* C6 witness: a poll handed PartitionDown to _check_and_cancel after a
\* reason that is not in the set; the job was cancelled and the poll raised
C6_Witness ==
    /\ last.op = "poll"
    /\ Len(last.checks) = 2
    /\ last.checks[1].reason_descr = <<"Priority">>
    /\ last.checks[1].raised = None
    /\ last.checks[2].reason_descr = <<"PartitionDown">>
    /\ last.raised = Some("JobBlockedError")
    /\ "j1" \in is_cancelling

\* C7, as claimed: for ReqNodeNotAvail with details UnavailableNodes:<names>,
\* _check_and_cancel returns without cancelling and without error when the
\* list of names is empty or no node returned for the names is down, and it
\* cancels and raises JobBlockedError when a returned node is down; with
\* ignore_reqnodenotavail configured no call for ReqNodeNotAvail cancels.
C7_ReqNodeNotAvail ==
    \A k \in DOMAIN last.checks :
        LET c == last.checks[k]
        IN  /\ (ReasonOf(c.reason_descr) = <<"ReqNodeNotAvail">>
                    /\ ignore_reqnodenotavail)
                   => ~IssuedCancel(c) /\ c.raised = None
            /\ (NamesUnavailable(c.reason_descr) /\ ~ignore_reqnodenotavail)
                   => IF NodeNames(c.reason_descr) = <<>>
                         \/ ~SomeNodeDown(last.env.scontrol)
                      THEN ~IssuedCancel(c) /\ c.raised = None
                      ELSE /\ IssuedCancel(c)
                           /\ c.raised = Some("JobBlockedError")
                           /\ c.job \in is_cancelling

\* C7, amended: as claimed, but when a returned node is down the call runs
\* scancel and raises JobBlockedError only if scancel succeeds; if scancel
\* fails the error of the command is raised and the job is not flagged.
C7_ReqNodeNotAvailIfCancelled ==
    \A k \in DOMAIN last.checks :
        LET c == last.checks[k]
        IN  /\ (ReasonOf(c.reason_descr) = <<"ReqNodeNotAvail">>
                    /\ ignore_reqnodenotavail)
                   => ~IssuedCancel(c) /\ c.raised = None
            /\ (NamesUnavailable(c.reason_descr) /\ ~ignore_reqnodenotavail)
                   => IF NodeNames(c.reason_descr) = <<>>
                         \/ ~SomeNodeDown(last.env.scontrol)
                      THEN ~IssuedCancel(c) /\ c.raised = None
                      ELSE /\ IssuedCancel(c)
                           /\ IF last.env.scancel_ok
                              THEN /\ c.raised = Some("JobBlockedError")
                                   /\ c.job \in is_cancelling
                              ELSE /\ c.raised = Some("SpawnedProcessError")
                                   /\ c.job \notin is_cancelling

\* C7 witness: the nodes named unavailable were queried, one of them is
\* draining, and the job was cancelled
C7_Witness ==
    /\ ~ignore_reqnodenotavail
    /\ Len(last.checks) = 1
    /\ NamesUnavailable(last.checks[1].reason_descr)
    /\ NodeNames(last.checks[1].reason_descr) = <<"nid[01-02]">>
    /\ \E i \in DOMAIN last.env.scontrol :
          last.env.scontrol[i].State = Some(<<"IDLE", "+", "DRAIN">>)
    /\ last.raised = Some("JobBlockedError")
    /\ "j1" \in is_cancelling

----------------------------------------------------------------------------
(* Properties of the whole interface, under Spec *)

\* C2: job.jobid is written only by a submit that succeeds: a step that
\* assigns the jobid of a job, or leaves it with another value, is a submit
\* of that job that raised nothing; poll, wait, finished, cancel,
\* completion_time and the cancel policy inside them never do.
C2_JobidOnlyBySubmit ==
    [][\A j \in Jobs :
          (jobid'[j] # jobid[j] \/ <<"jobid", j>> \in last'.writes)
              => /\ last'.op = "submit"
                 /\ last'.jobs = <<j>>
                 /\ last'.raised = None
                 /\ jobid'[j] # None]_vars

\* C2 witness: the job was submitted, then a wait polled it, the cancel
\* policy cancelled it and raised; its jobid is the one sbatch printed
C2_Witness ==
    /\ last.op = "wait"
    /\ last.raised = Some("JobBlockedError")
    /\ RanScancel(last, "j1")
    /\ jobid["j1"] = Some(7)

TimedOutMsg == <<"maximum pending time exceeded">>

\* the step is finished(j) with no stored exception
FinishedPlain(j) ==
    last'.op = "finished" /\ last'.jobs = <<j>> /\ exception[j] = None

\* the step is a test of the loop condition of wait(j)
WaitIteration(j) == last'.op = "wait" /\ pc # Idle /\ pc.job = j

Elapsed(j) == now - submit_time[j]

\* C8, as claimed: when max_pending_time is set, the state is pending and
\* the time since the submit is at least max_pending_time, finished with no
\* stored exception and each iteration of wait cancel the job and raise the
\* timed-out error; a job that is not pending is never cancelled for it.
C8_PendingTimeout ==
    [][\A j \in Jobs :
          (FinishedPlain(j) \/ WaitIteration(j)) =>
              /\ ( /\ max_pending_time[j] # None
                   /\ slurm_state_pending(state[j])
                   /\ Elapsed(j) >= Val(max_pending_time[j]) )
                 => /\ RanScancel(last', j)
                    /\ last'.raised = Some("JobError")
                    /\ last'.msg = TimedOutMsg
              /\ ~slurm_state_pending(state[j])
                 => /\ last'.msg # TimedOutMsg
                    /\ FinishedPlain(j) => ~RanScancel(last', j)]_vars

\* max_pending_time of job j is a duration other than zero, the state is
\* pending and that long has passed since the submit
PendingTimeOver(j) ==
    /\ max_pending_time[j] # None
    /\ Val(max_pending_time[j]) # 0
    /\ slurm_state_pending(state[j])
    /\ Elapsed(j) >= Val(max_pending_time[j])

\* C8, amended: when max_pending_time is set to a duration other than zero,
\* the state is pending and the time since the submit is at least
\* max_pending_time, finished with no stored exception and each iteration of
\* wait run scancel; if scancel succeeds the job is put in is_cancelling and
\* the timed-out error is raised, and if it fails the error of the command
\* is raised and is_cancelling is unchanged.  The timed-out error is raised
\* in no other case, and finished runs scancel in no other case: a job that
\* is not pending, or whose max_pending_time is unset or zero, is never
\* cancelled for it.
C8_PendingTimeoutIfCancelled ==
    [][\A j \in Jobs :
          /\ ((FinishedPlain(j) \/ WaitIteration(j)) /\ PendingTimeOver(j))
             => /\ RanScancel(last', j)
                /\ IF last'.env.scancel_ok
                   THEN /\ last'.raised = Some("JobError")
                        /\ last'.msg = TimedOutMsg
                        /\ j \in is_cancelling'
                   ELSE /\ last'.raised = Some("SpawnedProcessError")
                        /\ is_cancelling' = is_cancelling
          /\ (j \in Range(last'.jobs) /\ last'.msg = TimedOutMsg)
             => (FinishedPlain(j) \/ WaitIteration(j)) /\ PendingTimeOver(j)
          /\ (FinishedPlain(j) /\ ~PendingTimeOver(j))
             => ~RanScancel(last', j)]_vars

\* C8 witness: finished found the job pending two seconds after its submit,
\* with max_pending_time two seconds; it cancelled the job and raised
C8_Witness ==
    /\ last.op = "finished"
    /\ max_pending_time["j1"] = Some(2)
    /\ slurm_state_pending(state["j1"])
    /\ now - submit_time["j1"] >= 2
    /\ RanScancel(last, "j1")
    /\ last.raised = Some("JobError")
    /\ last.msg = TimedOutMsg
    /\ "j1" \in is_cancelling

\* C9: finished with a stored JobBlockedError raises it again; with another
\* stored JobError it returns false whatever the state is; on both paths
\* job.exception is None afterwards and no command is run.  With no stored
\* exception and no pending-time violation it returns completed(job.state).
\* In every case job.state is left as it was.
C9_FinishedStoredException ==
    [][\A j \in Jobs :
          (last'.op = "finished" /\ last'.jobs = <<j>>) =>
              /\ exception[j] = Some("JobBlockedError")
                 => /\ last'.raised = Some("JobBlockedError")
                    /\ exception'[j] = None
                    /\ last'.cmds = <<>>
              /\ exception[j] = Some("JobError")
                 => /\ last'.raised = None
                    /\ last'.ret = Some(FALSE)
                    /\ exception'[j] = None
                    /\ last'.cmds = <<>>
              /\ (exception[j] = None /\ ~PendingTimeOver(j))
                 => /\ last'.raised = None
                    /\ last'.ret = Some(slurm_state_completed(state[j]))
                    /\ last'.cmds = <<>>
              /\ state'[j] = state[j]]_vars

\* C9 witness: finished was called on a completed job with a stored JobError;
\* it returned false and the stored exception is gone
C9_Witness ==
    /\ last.op = "finished"
    /\ last.writes = {}
    /\ last.raised = None
    /\ last.ret = Some(FALSE)
    /\ slurm_state_completed(state["j1"])
    /\ exception["j1"] = None

----------------------------------------------------------------------------
(* Properties of cancel and submit, under Spec *)

\* the step is cancel(j), called by the client
CancelCall(j) == last'.op = "cancel" /\ last'.jobs = <<j>>

\* the fields of the jobs and of the backend that cancel may not touch
CancelFrame ==
    <<state, exitcode, nodelist, jobid, exception, completion_time,
      update_state_count, submit_time, is_job_array, merged, now>>

\* C11: cancel(j) runs scancel for the job and leaves job.state,
\* job.exitcode, job.nodelist and job.jobid, and every other field but the
\* two sets, as they were; it adds the job to is_cancelling, and in the squeue
\* backend to cancelled, exactly when scancel succeeded, and changes neither
\* set otherwise.  A cancel of a job that is already flagged runs scancel
\* again and leaves every field of the jobs and of the backend as it was.
C11_CancelAdvisory ==
    [][\A j \in Jobs :
          CancelCall(j) =>
              /\ last'.cmds = <<<<"scancel", j>>>>
              /\ UNCHANGED CancelFrame
              /\ IF last'.env.scancel_ok
                 THEN /\ last'.raised = None
                      /\ is_cancelling' = is_cancelling \cup {j}
                      /\ cancelled' = IF backend = "squeue"
                                      THEN cancelled \cup {j} ELSE cancelled
                 ELSE /\ last'.raised # None
                      /\ UNCHANGED <<is_cancelling, cancelled>>
              /\ (j \in is_cancelling /\ (backend = "squeue" => j \in cancelled))
                 => UNCHANGED <<jvars, bvars>>]_vars

\* C11 witness: scancel failed in a cancel of a job that an earlier cancel
\* had flagged in the squeue backend; the job is flagged as it was
C11_Witness ==
    /\ backend = "squeue"
    /\ last.op = "cancel"
    /\ last.jobs = <<"j1">>
    /\ last.cmds = <<<<"scancel", "j1">>>>
    /\ last.raised = Some("SpawnedProcessError")
    /\ "j1" \in is_cancelling
    /\ "j1" \in cancelled

----------------------------------------------------------------------------
(* Properties of a client that polls and then waits, under SpecWorld *)

\* the fields right after the submit of the jobs: nothing polled, nothing
\* flagged, the clock at the time of the submit of job j
AfterSubmit(j) ==
    [Here EXCEPT
        !.state = [x \in Jobs |-> None],
        !.exitcode = [x \in Jobs |-> None],
        !.nodelist = [x \in Jobs |-> None],
        !.completion_time = [x \in Jobs |-> None],
        !.exception = [x \in Jobs |-> None],
        !.is_cancelling = {},
        !.cancelled = {},
        !.update_state_count = [x \in DOMAIN update_state_count |-> 0],
        !.is_job_array = EmptyDict,
        !.merged = {},
        !.now = submit_time[j]]

\* wait(j) from inside its loop, in the world w: the fields when it ends, or
\* None when it does not end by the last time of the world
RECURSIVE WaitAloneLoop(_, _, _, _)
WaitAloneLoop(S, w, j, k) ==
    IF Raised(S) \/ S.ret # None THEN Some(S)
    ELSE LET t == wait_loop(S, j, k, DefaultEnv).now
         IN  IF t \notin WorldTimes THEN None
             ELSE WaitAloneLoop(wait_loop(S, j, k, EnvIn(w[t], j)), w, j,
                                (k % Len(intervals)) + 1)

\* submit(j) followed at once by wait(j)
WaitAlone(w, j) ==
    LET t == wait_enter(AfterSubmit(j), j, DefaultEnv).now
    IN  IF t \notin WorldTimes THEN None
        ELSE WaitAloneLoop(wait_enter(AfterSubmit(j), j, EnvIn(w[t], j)), w, j, 1)

\* how a sequence of calls ended: the error raised, or the state and the
\* exit code of the job
Outcome(raised, st, code) ==
    IF raised # None THEN [raised |-> raised, state |-> None, exitcode |-> None]
    ELSE [raised |-> None, state |-> st, exitcode |-> code]

\* wait(j) has just ended, after a submit and some polls
WaitEnded(j) == last.op = "wait" /\ last.jobs = <<j>> /\ pc = Idle

\* the record of a job does not change once its state is terminal
Settles(w) ==
    \A t, u \in WorldTimes :
        (t < u /\ WordIn(w[t].kind.state, completion_states)) => w[u] = w[t]

\* C12, as claimed: in the same world, submit, any number of polls and then
\* wait end as submit and then wait end: with the same error, or with the
\* same state and exit code.
C12_PollsThenWait ==
    \A j \in WorldJobs :
        WaitEnded(j) =>
            \A alone \in {WaitAlone(World, j)} :
                alone # None =>
                    Outcome(last.raised, state[j], exitcode[j])
                        = Outcome(Val(alone).raised, Val(alone).state[j],
                                  Val(alone).exitcode[j])

\* C12, amended: when the record of the job does not change once it is
\* terminal and both sequences return normally, they end with the same state
\* and exit code, and the state is classified completed.
C12_PollsThenWaitIfSettled ==
    \A j \in WorldJobs :
        (WaitEnded(j) /\ Settles(World) /\ last.raised = None) =>
            \A alone \in {WaitAlone(World, j)} :
                (alone # None /\ Val(alone).raised = None) =>
                    /\ state[j] = Val(alone).state[j]
                    /\ exitcode[j] = Val(alone).exitcode[j]
                    /\ slurm_state_completed(state[j])

\* C12 witness: in the sacct backend the job was polled more often than the
\* wait that follows the submit at once polls it, and both ended FAILED with
\* the exit code of the record
C12_Witness ==
    /\ backend = "slurm"
    /\ WaitEnded("j1")
    /\ Settles(World)
    /\ last.raised = None
    /\ state["j1"] = Some(<<"FAILED">>)
    /\ exitcode["j1"] = Some(MaxExit)
    /\ \E alone \in {WaitAlone(World, "j1")} :
          /\ alone # None
          /\ update_state_count["j1"] > Val(alone).update_state_count["j1"] + 1
          /\ Val(alone).state["j1"] = Some(<<"FAILED">>)

\* job.options hold an array option with a value: the job is an array job
IsArrayJob(j) ==
    \E i \in DOMAIN options[j] :
        /\ options[j][i][1] \in {"-a", "--array"}
        /\ Len(options[j][i]) > 2
        /\ \A k \in DOMAIN options[j] :
              (k > i) => options[j][k][1] \notin {"-a", "--array"}

\* the call merged the output files of the array into stdout and stderr
Merged(c, j) == <<"merged", j>> \in c.writes

\* C13: a wait that returns normally leaves a state classified completed,
\* and it has merged the output files exactly when the job is an array job,
\* on the fast path too; a wait that raises, or that is still in its loop,
\* has merged nothing, and no call merges the files of a job that is not an
\* array job.
C13_WaitMerges ==
    \A j \in Jobs :
        /\ (last.op = "wait" /\ last.jobs = <<j>>) =>
              /\ last.ret # None =>
                    /\ last.raised = None
                    /\ pc = Idle
                    /\ slurm_state_completed(state[j])
                    /\ Merged(last, j) = IsArrayJob(j)
              /\ last.ret = None => ~Merged(last, j)
        /\ ~IsArrayJob(j) => j \notin merged

\* C13 witness: wait found an array job completed on entry; it ran no
\* command, merged the files and returned
C13_Witness ==
    /\ last.op = "wait"
    /\ last.jobs = <<"j1">>
    /\ last.cmds = <<>>
    /\ last.ret # None
    /\ IsArrayJob("j1")
    /\ Merged(last, "j1")
    /\ "j1" \in merged

----------------------------------------------------------------------------
(* Properties of submit, under SpecSubmit *)

\* position i of what sbatch printed starts 'Submitted batch job <digits>'
SubmittedAt(out, i) ==
    /\ i \in DOMAIN out
    /\ i + 1 \in DOMAIN out
    /\ out[i] = "Submitted batch job "
    /\ \E n \in 0..9 : out[i + 1] = str(n)

\* the step is submit(j)
SubmitCall(j) == last'.op = "submit" /\ last'.jobs = <<j>>

\* the entries of the jobs other than j in the dictionaries submit writes
OthersKept(j) ==
    /\ \A k \in Jobs \ {j} : jobid'[k] = jobid[k]
    /\ \A k \in DOMAIN update_state_count \ {j} :
          update_state_count'[k] = update_state_count[k]
    /\ \A k \in DOMAIN submit_time \ {j} : submit_time'[k] = submit_time[k]
    /\ DOMAIN update_state_count' \ {j} = DOMAIN update_state_count \ {j}
    /\ DOMAIN submit_time' \ {j} = DOMAIN submit_time \ {j}

\* C14: when sbatch succeeds and prints 'Submitted batch job <n>', submit
\* raises nothing, job.jobid is the integer of the first such line,
\* update_state_count of the job is 0 and its submit_time is the current
\* time; when sbatch fails or prints no such line, submit raises an error
\* and job.jobid, update_state_count and submit_time are as they were, also
\* for a job that was submitted before.  The entries of other jobs are kept.
C14_Submit ==
    [][\A j \in Jobs :
          SubmitCall(j) =>
              /\ OthersKept(j)
              /\ IF /\ last'.env.sbatch_ok
                    /\ \E i \in DOMAIN last'.env.stdout :
                          SubmittedAt(last'.env.stdout, i)
                 THEN /\ last'.raised = None
                      /\ \E i \in DOMAIN last'.env.stdout :
                            /\ SubmittedAt(last'.env.stdout, i)
                            /\ \A k \in 1..(i - 1) :
                                  ~SubmittedAt(last'.env.stdout, k)
                            /\ jobid'[j] = Some(int(last'.env.stdout[i + 1]))
                      /\ j \in DOMAIN update_state_count'
                      /\ update_state_count'[j] = 0
                      /\ j \in DOMAIN submit_time'
                      /\ submit_time'[j] = now
                 ELSE /\ last'.raised # None
                      /\ UNCHANGED <<jobid, update_state_count,
                                     submit_time>>]_vars

\* C14 witness: a job submitted at time 0 was submitted again later; sbatch
\* printed two lines with an id, and the job has the first id and the later
\* submit time
C14_Witness ==
    /\ last.op = "submit"
    /\ last.jobs = <<"j1">>
    /\ last.raised = None
    /\ last.env.stdout
           = <<"Submitted batch job ", "9", "Submitted batch job ", "7">>
    /\ jobid["j1"] = Some(9)
    /\ update_state_count["j1"] = 0
    /\ submit_time["j1"] = now
    /\ now > 0

----------------------------------------------------------------------------
(* Properties of completion_time, under Spec *)

\* the step is completion_time(j)
CompletionTimeCall(j) == last'.op = "completion_time" /\ last'.jobs = <<j>>

\* v is the largest end time that is a number among the lines
IsMaxEnd(v, lines) ==
    /\ \E i \in DOMAIN lines :
          Len(lines[i].end) = 1 /\ IsDigits(lines[i].end[1])
              /\ int(lines[i].end[1]) = v
    /\ \A i \in DOMAIN lines :
          (Len(lines[i].end) = 1 /\ IsDigits(lines[i].end[1]))
              => int(lines[i].end[1]) <= v

RanSacctEnd(c, j) == c.cmds = <<<<"sacct -o jobid,end", j>>>>

\* C15: in the sacct backend completion_time returns the cached time, with
\* no query, when there is one; it returns null, with no query, when nothing
\* is cached and the state is not classified completed; otherwise it asks
\* sacct once and returns and caches the largest end time of the records of
\* the job, or returns null when no record has one.  The cache changes only
\* in such a call, from null to the value returned, so a time once returned
\* is returned by every later call whatever polls come in between.  In the
\* squeue backend completion_time returns null, caches nothing and runs no
\* command.
C15_CompletionTimeSticky ==
    [][\A j \in Jobs :
          /\ (CompletionTimeCall(j) /\ backend = "squeue")
             => /\ last'.ret = Some(None)
                /\ last'.cmds = <<>>
                /\ completion_time[j] = None
          /\ (CompletionTimeCall(j) /\ backend = "slurm")
             => /\ last'.raised = None
                /\ last'.ret = Some(completion_time'[j])
                /\ IF completion_time[j] # None
                   THEN /\ last'.cmds = <<>>
                        /\ completion_time'[j] = completion_time[j]
                   ELSE IF ~slurm_state_completed(state[j])
                   THEN /\ last'.cmds = <<>>
                        /\ completion_time'[j] = None
                   ELSE /\ RanSacctEnd(last', j)
                        /\ IF \E v \in 0..9 :
                                 IsMaxEnd(v, LinesIn(last'.env.ends, j))
                           THEN /\ completion_time'[j] # None
                                /\ IsMaxEnd(Val(completion_time'[j]),
                                            LinesIn(last'.env.ends, j))
                           ELSE completion_time'[j] = None
          /\ completion_time'[j] # completion_time[j]
             => /\ CompletionTimeCall(j)
                /\ completion_time[j] = None
                /\ slurm_state_completed(state[j])]_vars

\* C15 witness: the end time 6 was cached; a poll took the job out of the
\* completed states, and completion_time still returned 6 and ran no command
C15_Witness ==
    /\ backend = "slurm"
    /\ last.op = "completion_time"
    /\ last.jobs = <<"j1">>
    /\ last.cmds = <<>>
    /\ last.ret = Some(Some(6))
    /\ completion_time["j1"] = Some(6)
    /\ ~slurm_state_completed(state["j1"])

----------------------------------------------------------------------------
(* Properties of filternodes, under SpecFilter *)

\* every node of A is, by its name, a node of B
SubsetByName(A, B) == \A n \in A : \E m \in B : m.name = n.name

FilterSteps ==
    <<"reservation", "partitions", "constraints", "nodelist", "exclude">>

StepRank(step) == CHOOSE i \in DOMAIN FilterSteps : FilterSteps[i] = step

\* the job restricts the nodes by the option: its last occurrence among
\* job.options and the sched_* fields has a value
Restricts(job, flags, field) ==
    IF field # None /\ Val(field) # <<>> THEN TRUE
    ELSE \E i \in DOMAIN job.options :
            /\ job.options[i][1] \in flags
            /\ Len(job.options[i]) > 2
            /\ \A k \in DOMAIN job.options :
                  k > i => job.options[k][1] \notin flags

\* the steps filternodes takes for the job when no command fails
StepsFor(job) ==
    {"partitions"}
    \cup (IF Restricts(job, {"--reservation"}, job.sched_reservation)
          THEN {"reservation"} ELSE {})
    \cup (IF Restricts(job, {"-C", "--constraint"}, None)
          THEN {"constraints"} ELSE {})
    \cup (IF Restricts(job, {"-w", "--nodelist"}, job.sched_nodelist)
          THEN {"nodelist"} ELSE {})
    \cup (IF Restricts(job, {"-x", "--exclude"}, job.sched_exclude_nodelist)
          THEN {"exclude"} ELSE {})

\* C16: the nodes left at each step of filternodes are, by name, among the
\* nodes left at the step before, and at the first step among the
\* candidates; the steps come in the order reservation, partitions,
\* constraints, nodelist, exclude; and when filternodes returns, it has taken
\* the partitions step and one step for each restriction of the job, and it
\* returns the nodes left at the last step, a subset of the candidates.
C16_FilterOnlyRemoves ==
    (verdict # None /\ arg # None) =>
        LET log == Val(verdict).log
        IN  /\ \A i \in DOMAIN log :
                  /\ log[i].step \in Range(FilterSteps)
                  /\ SubsetByName(log[i].nodes,
                                  IF i = 1 THEN Val(arg).nodes
                                  ELSE log[i - 1].nodes)
            /\ \A i, k \in DOMAIN log :
                  i < k => StepRank(log[i].step) < StepRank(log[k].step)
            /\ Val(verdict).raised = None =>
                  /\ {log[i].step : i \in DOMAIN log} = StepsFor(Val(arg).job)
                  /\ Val(verdict).nodes = log[Len(log)].nodes
                  /\ SubsetByName(Val(verdict).nodes, Val(arg).nodes)

\* C16 witness: all five steps were taken on the three nodes; the
\* reservation step and the exclude step each removed a node
C16_Witness ==
    /\ verdict # None
    /\ Val(verdict).raised = None
    /\ Len(Val(verdict).log) = 5
    /\ Cardinality(Val(arg).nodes) = 3
    /\ Cardinality(Val(verdict).log[1].nodes) = 2
    /\ Cardinality(Val(verdict).log[5].nodes)
           < Cardinality(Val(verdict).log[4].nodes)
    /\ Val(verdict).nodes # {}

----------------------------------------------------------------------------
(* Properties of polls of a batch of two jobs, under SpecBatch *)

\* the call ran the squeue query for the pending reason of job j
RanReasonQuery(c, j) ==
    \E i \in DOMAIN c.cmds : c.cmds[i] = <<"squeue -o %r", j>>

\* the call assigned a state to job j
StateAssigned(c, j) == <<"state", j>> \in c.writes

\* C17: in the sacct backend a poll runs the squeue query for the pending
\* reason of a job exactly when the poll is of a batch that holds the job and
\* brings the counter of the job to a multiple of SACCT_SQUEUE_RATIO, sacct
\* printed a line for the job, the state the poll assigned to the job is
\* pending, and the job was not in is_cancelling; the counter of every job of
\* the batch grows by one in a poll whose sacct succeeded, lines or no lines,
\* and no other counter changes in a poll.
C17_ReasonQueryAtRatio ==
    [][(backend = "slurm" /\ last'.op = "poll")
          => \A j \in DOMAIN update_state_count :
                /\ update_state_count'[j] =
                       update_state_count[j]
                       + (IF Polled(last', j) /\ last'.env.sacct_ok
                          THEN 1 ELSE 0)
                /\ RanReasonQuery(last', j)
                       <=> /\ Polled(last', j)
                           /\ last'.env.sacct_ok
                           /\ update_state_count'[j] % SACCT_SQUEUE_RATIO = 0
                           /\ LinesIn(last'.env.out, j) # <<>>
                           /\ StateAssigned(last', j)
                           /\ slurm_state_pending(state'[j])
                           /\ j \notin is_cancelling]_vars

\* a poll of the two jobs brought both counters to the ratio and asked squeue
\* for the reason of each
C17_Witness ==
    /\ backend = "slurm"
    /\ last.op = "poll"
    /\ last.jobs = <<"j1", "j2">>
    /\ \A j \in Jobs :
          /\ update_state_count[j] = SACCT_SQUEUE_RATIO
          /\ RanReasonQuery(last, j)
          /\ slurm_state_pending(state[j])

\* the checks of reasons the call made for job j, in the order made
ChecksOf(c, j) == SelectSeq(c.checks, LAMBDA k : k.job = j)

Reported(j) == <<state[j], exitcode[j], nodelist[j]>>

\* C19: in the sacct backend a poll whose sacct ran and printed no line that
\* matches raises nothing and leaves state, exitcode and nodelist of every
\* job as they were; in any poll a job of the batch with no line in the
\* output keeps the three, while a job with lines gets the state its lines
\* spell, in every poll that returns and for the first job of the batch also
\* in a poll that raises.
C19_NoLineNoChange ==
    [][(backend = "slurm" /\ last'.op = "poll")
          => \A matched \in {SelectSeq(last'.env.out, sacct_line_matches)} :
                /\ (last'.env.sacct_ok /\ matched = <<>>)
                       => /\ last'.raised = None
                          /\ \A j \in Jobs : Reported(j)' = Reported(j)
                /\ \A j \in Range(last'.jobs) :
                      \A lines \in {LinesIn(last'.env.out, j)} :
                         /\ lines = <<>> => Reported(j)' = Reported(j)
                         /\ ( /\ lines # <<>>
                              /\ last'.raised = None \/ j = last'.jobs[1])
                                => /\ StateAssigned(last', j)
                                   /\ state'[j] = Some(poll_state(lines))]_vars

\* a poll of the two jobs printed lines of the first job only: the state of
\* the first changed and the second kept the failed state, exit code and
\* node list of an earlier poll
C19_Witness ==
    /\ backend = "slurm"
    /\ last.op = "poll"
    /\ Range(last.jobs) = Jobs
    /\ LinesIn(last.env.out, "j1") # <<>>
    /\ LinesIn(last.env.out, "j2") = <<>>
    /\ StateAssigned(last, "j1")
    /\ state["j2"] = Some(<<"FAILED">>)
    /\ exitcode["j2"] = Some(MaxExit)
    /\ nodelist["j2"] # None

\* C20: in both backends a poll that assigns a state to a job with lines in
\* the output, that is lines whose id before the first '_' is the id of the
\* job, be it <id>, <id>_<k> or <id>_[<a>-<b>], assigns the comma-join of the
\* states of exactly those lines in output order; it does so for every such
\* job of the batch it reaches; and the lines of other jobs give a job
\* nothing: with none of its own the sacct backend assigns it no state and
\* the squeue backend COMPLETED or CANCELLED.
C20_StateFromOwnLines ==
    [][last'.op = "poll"
          => \A j \in Range(last'.jobs) :
                \A own \in {LinesIn(last'.env.out, j)} :
                   /\ (own # <<>> /\ StateAssigned(last', j))
                          => state'[j] = Some(Join(Field(own, "state"), ","))
                   /\ ( /\ own # <<>>
                        /\ last'.raised = None \/ j = last'.jobs[1])
                          => StateAssigned(last', j)
                   /\ (own = <<>> /\ backend = "slurm")
                          => ~StateAssigned(last', j)
                   /\ (own = <<>> /\ StateAssigned(last', j))
                          => state'[j] \in {Some(<<"COMPLETED">>),
                                            Some(<<"CANCELLED">>)}]_vars

\* a poll of the two jobs read a line of a member of the array of the first
\* job, a line of the second job and a line of a range of members of the
\* first, in this order, and gave the first job the states of its two lines
\* and the second the state of its one
C20_Witness ==
    /\ last.op = "poll"
    /\ Range(last.jobs) = Jobs
    /\ \E i, k, l \in DOMAIN last.env.out :
          /\ i < k /\ k < l
          /\ last.env.out[i].jobid = IdField(IdWord["j1"], 1, 2)
          /\ last.env.out[k].jobid[1] = IdWord["j2"]
          /\ last.env.out[l].jobid = IdRange(IdWord["j1"], 2, 3)
          /\ state["j1"] = Some(last.env.out[i].state \o <<",">>
                                \o last.env.out[l].state)
          /\ state["j2"] = Some(last.env.out[k].state)
    /\ \A j \in Jobs : StateAssigned(last, j)

----------------------------------------------------------------------------
(* Properties of is_array across emit_preamble and wait, under SpecArray *)

\* C21, as claimed: once is_array has an entry for a job, no later call
\* changes the entry, so that wait merges the files of a job exactly when
\* the entry made for the preamble says it is an array, whatever job.options
\* hold by then.
C21_IsArrayMemoised ==
    [][\A j \in DOMAIN is_job_array :
          /\ j \in DOMAIN is_job_array'
          /\ is_job_array'[j] = is_job_array[j]
          /\ (last'.op = "wait" /\ j \in Range(last'.jobs))
                => (Merged(last', j) => is_job_array[j])]_vars

\* what the code does: every call of is_array, by emit_preamble and by wait
\* when its loop has ended, sets the entry of the job from the options the job
\* has at that moment
C21_IsArrayRecomputed ==
    [][\A j \in Jobs :
          ( /\ j \in Range(last'.jobs)
            /\ \/ last'.op = "emit_preamble"
               \/ last'.op = "wait" /\ last'.ret # None)
              => /\ j \in DOMAIN is_job_array'
                 /\ is_job_array'[j] = IsArrayJob(j)]_vars

----------------------------------------------------------------------------
(* Properties of the node list, under SpecPoll *)

\* the node specifications sacct printed for job j, joined with commas, name
\* nodes
NamesNodeList(out, j) ==
    /\ LinesIn(out, j) # <<>>
    /\ Join(Field(LinesIn(out, j), "nodespec"), ",")
           \notin {<<>>, <<"None assigned">>}

\* C22, as claimed: in the sacct backend a poll never changes a node list
\* that is set, and it sets the node list of a job that has none exactly
\* when the node specifications sacct printed for the job name nodes.
C22_NodelistOnce ==
    [][\A j \in Jobs :
          (backend = "slurm" /\ Polled(last', j))
              => /\ nodelist[j] # None => nodelist'[j] = nodelist[j]
                 /\ nodelist[j] = None
                        => (nodelist'[j] # None
                               <=> NamesNodeList(last'.env.out, j))]_vars

\* C22, amended: a poll never changes a node list that is set, and it sets
\* the node list of a job that has none exactly when the node specifications
\* printed for the job name nodes and the poll raises nothing: the check of
\* the pending reason comes first, and an error it raises leaves the node
\* list unset for a later poll to set.
C22_NodelistOnceUnlessRaised ==
    [][\A j \in Jobs :
          (backend = "slurm" /\ Polled(last', j))
              => /\ nodelist[j] # None
                        => /\ nodelist'[j] = nodelist[j]
                           /\ <<"nodelist", j>> \notin last'.writes
                 /\ nodelist[j] = None
                        => (nodelist'[j] # None
                               <=> /\ NamesNodeList(last'.env.out, j)
                                   /\ last'.raised = None)]_vars

\* a poll read a node list for a job whose node list was set by an earlier
\* poll, and ran no scontrol for it
C22_Witness ==
    /\ backend = "slurm"
    /\ Polled(last, "j1")
    /\ last.raised = None
    /\ NamesNodeList(last.env.out, "j1")
    /\ nodelist["j1"] # None
    /\ <<"nodelist", "j1">> \notin last.writes

----------------------------------------------------------------------------
(* Properties of the preamble, under SpecPreamble *)

\* the first symbol of the fragment that is not a space is -C or --constraint
OpensWithConstraint(f) ==
    \E i \in DOMAIN f :
        /\ f[i] \in {"-C", "--constraint"}
        /\ \A k \in 1..(i - 1) : f[k] = " "

\* the line is a --constraint directive
IsConstraintLine(l) ==
    Len(l) >= 3 /\ SubSeq(l, 1, 3) = <<"#SBATCH", " ", "--constraint">>

\* the fragments that do not open with -C or --constraint, in their order
OtherFragments(frags) == SelectSeq(frags, LAMBDA f : ~OpensWithConstraint(f))

\* the constraint values the two sources yield, sched_access first: each is
\* the last value its source gives, without the spaces around it
YieldedConstraints(access, opts) ==
    LET a == parse_constraint(access, 1, None).value
        o == parse_constraint(opts, 1, None).value
    IN  (IF a # None /\ Val(a) # <<>> THEN <<strip(Val(a))>> ELSE <<>>)
        \o (IF o # None /\ Val(o) # <<>> THEN <<strip(Val(o))>> ELSE <<>>)

\* the lines from the first fragment of sched_access on, as the claim has
\* them: the other fragments of sched_access, the one --constraint directive
\* when a source yields a value, the hint, the other fragments of job.options
ExpectedTail(job, opts) ==
    LET acc == OtherFragments(job.sched_access)
        oth == OtherFragments(opts)
        ys == YieldedConstraints(job.sched_access, opts)
    IN  [i \in DOMAIN acc |-> <<"#SBATCH", " ">> \o acc[i]]
        \o (IF ys # <<>>
            THEN <<<<"#SBATCH", " ", "--constraint", "=">> \o Join(ys, "&")>>
            ELSE <<>>)
        \o (IF job.use_smt # None
            THEN <<<<"#SBATCH", " ", "--hint", "=", "multithread">>>>
            ELSE <<>>)
        \o [i \in DOMAIN oth |->
               IF oth[i][1] \in {"#DW", "#SBATCH"} THEN oth[i]
               ELSE <<"#SBATCH", " ">> \o oth[i]]

----------------------------------------------------------------------------
(* Properties of polls whose status query fails, under SpecQuery *)

\* the sacct or squeue command of the poll exited with an error
QueryFailed(c) ==
    /\ c.op = "poll"
    /\ IF backend = "squeue" THEN ~c.env.squeue_ok ELSE ~c.env.sacct_ok

\* C24, as claimed: in either backend a poll whose status query fails leaves
\* the state and the exit code of every job of the batch as they were.
C24_FailedQueryKeepsResult ==
    [][QueryFailed(last')
          => \A j \in Range(last'.jobs) :
                /\ state'[j] = state[j]
                /\ exitcode'[j] = exitcode[j]]_vars

\* what the code does: in the sacct backend the failed query raises and no
\* job changes; in the squeue backend the failure is not looked at and every
\* job of the batch, having no line, is given a final state, and the exit
\* code 0 when it has none.
C24_FailedQueryBySacctOnly ==
    [][QueryFailed(last')
          => \A j \in Range(last'.jobs) :
                IF backend = "slurm"
                THEN /\ state'[j] = state[j]
                     /\ exitcode'[j] = exitcode[j]
                     /\ last'.raised = Some("SpawnedProcessError")
                ELSE /\ state'[j] \in {Some(<<"COMPLETED">>),
                                       Some(<<"CANCELLED">>)}
                     /\ exitcode'[j] # None
                     /\ last'.raised = None]_vars

\* the second half of C24 alone: a poll whose status query fails does not
\* turn a job that was running into a completed one.
C24_RunningStaysRunning ==
    [][QueryFailed(last')
          => \A j \in Range(last'.jobs) :
                state[j] = Some(<<"RUNNING">>)
                    => state'[j] # Some(<<"COMPLETED">>)]_vars

----------------------------------------------------------------------------
(* Properties of a batched poll that ends with a blocked job, under SpecBatch *)

\* the job whose check ended call c
BlockedJob(c) == c.checks[Len(c.checks)].job

\* the place of job j in the batch of call c
PlaceIn(c, j) == CHOOSE i \in DOMAIN c.jobs : c.jobs[i] = j

\* C25: when a poll of the sacct backend raises JobBlockedError, the blocked
\* job has the state of its lines and the exit code and node list it had,
\* every job after it in the batch keeps its state, exit code and node list,
\* every job before it is updated from its lines in full, and the counter of
\* every job of the batch has gone up by one.
C25_BlockedMidBatch ==
    [][(backend = "slurm" /\ last'.op = "poll"
            /\ last'.raised = Some("JobBlockedError"))
          => \E b \in {BlockedJob(last')} :
                /\ b \in Range(last'.jobs)
                /\ <<"state", b>> \in last'.writes
                /\ state'[b] = Some(poll_state(LinesIn(last'.env.out, b)))
                /\ exitcode'[b] = exitcode[b]
                /\ nodelist'[b] = nodelist[b]
                /\ \A j \in Range(last'.jobs) :
                      /\ update_state_count'[j] = update_state_count[j] + 1
                      /\ PlaceIn(last', j) > PlaceIn(last', b)
                            => Reported(j)' = Reported(j)
                      /\ PlaceIn(last', j) < PlaceIn(last', b)
                            => \A lines \in {LinesIn(last'.env.out, j)} :
                                  IF lines = <<>>
                                  THEN Reported(j)' = Reported(j)
                                  ELSE /\ state'[j] = Some(poll_state(lines))
                                       /\ exitcode'[j] =
                                            IF slurm_state_completed(state'[j])
                                            THEN Some(sacct_exitcode(lines))
                                            ELSE exitcode[j]
                                       /\ nodelist[j] # None
                                             => nodelist'[j] = nodelist[j]
                                       /\ nodelist[j] = None
                                             => (nodelist'[j] # None
                                                   <=> NamesNodeList(
                                                         last'.env.out, j))]_vars

\* a poll of <<j1, j2>> blocked at j2: j1, before it, has the state, exit
\* code and node list of its completed line, and j2 the pending state of its
\* line and no node list
C25_Witness ==
    /\ backend = "slurm"
    /\ last.op = "poll"
    /\ last.raised = Some("JobBlockedError")
    /\ last.jobs = <<"j1", "j2">>
    /\ BlockedJob(last) = "j2"
    /\ state["j1"] = Some(<<"COMPLETED">>)
    /\ <<"exitcode", "j1">> \in last.writes
    /\ <<"nodelist", "j1">> \in last.writes
    /\ state["j2"] = Some(<<"PENDING">>)
    /\ nodelist["j2"] = None
    /\ update_state_count["j2"] = SACCT_SQUEUE_RATIO

\* a poll of <<j1, j2>> blocked at j1 printed a failed line of j2, and j2,
\* after j1 in the batch, has no state
C25_WitnessLater ==
    /\ backend = "slurm"
    /\ last.op = "poll"
    /\ last.raised = Some("JobBlockedError")
    /\ last.jobs = <<"j1", "j2">>
    /\ BlockedJob(last) = "j1"
    /\ LinesIn(last.env.out, "j2") # <<>>
    /\ state["j2"] = None

----------------------------------------------------------------------------
(* Properties of the cancel policy over a sequence of polls, under SpecPoll *)

\* the places of call c's commands that are scancel of job j
ScancelsOf(c, j) == {i \in DOMAIN c.cmds : c.cmds[i] = <<"scancel", j>>}

\* C26: in either backend a poll of a job that is in is_cancelling checks no
\* reason of the job, runs no scancel for it and raises no JobBlockedError
\* for it; a poll runs scancel for a job at most once, in the last reason
\* check it makes for the job, and when that scancel succeeds the job is in
\* is_cancelling and the poll raises JobBlockedError; no job leaves
\* is_cancelling.
C26_CancelledOnce ==
    [][/\ is_cancelling \subseteq is_cancelling'
       /\ \A j \in Jobs :
             Polled(last', j)
                => \A mine \in {ChecksOf(last', j)} :
                      /\ j \in is_cancelling
                            => /\ mine = <<>>
                               /\ ScancelsOf(last', j) = {}
                               /\ last'.raised = Some("JobBlockedError")
                                     => BlockedJob(last') # j
                      /\ Cardinality(ScancelsOf(last', j)) <= 1
                      /\ \A i \in DOMAIN mine :
                            (mine[i].cmds # <<>> /\ IssuedCancel(mine[i]))
                               => i = Len(mine)
                      /\ (ScancelsOf(last', j) # {} /\ last'.env.scancel_ok)
                            => /\ j \in is_cancelling'
                               /\ last'.raised = Some("JobBlockedError")
                               /\ BlockedJob(last') = j]_vars

\* the squeue backend polled a job that is in is_cancelling by a cancel of
\* the policy, the output had a line with a reason to cancel, and the poll
\* ran no scancel and returned
C26_Witness ==
    /\ backend = "squeue"
    /\ Polled(last, "j1")
    /\ last.raised = None
    /\ "j1" \in is_cancelling
    /\ exception["j1"] = None
    /\ \E i \in DOMAIN last.env.out :
          /\ last.env.out[i].state = <<"RUNNING">>
          /\ last.env.out[i].reason = <<"PartitionDown">>
    /\ ScancelsOf(last, "j1") = {}
    /\ last.checks = <<>>

\* a poll cancelled a job at the first of its two reason lines and checked
\* no second reason
C26_WitnessFirstLine ==
    /\ Polled(last, "j1")
    /\ last.raised = Some("JobBlockedError")
    /\ Len(last.checks) = 1
    /\ IF backend = "squeue" THEN Len(LinesIn(last.env.out, "j1")) = 2
       ELSE Len(last.env.reasons) = 2
    /\ "j1" \in is_cancelling

----------------------------------------------------------------------------
(* Properties of wait(job) over time, under SpecWaitFair *)

\* the number of sacct commands call c ran
SacctRuns(c) == Cardinality({i \in DOMAIN c.cmds : c.cmds[i] = <<"sacct">>})

\* the seconds of the n-th sleep of a wait: 1, 2, 3, 1, 2, 3, ...
NthSleep(n) == ((n - 1) % 3) + 1

\* the accounting record of the job has settled early enough for a poll
\* after the longest sleep to fall before the last tick of the clock
SettlesInTime == World.at + 3 <= MaxWaitTime

\* C27, the cadence: wait(job) does not sleep before its first poll; a test
\* of its loop either ends the call with no sleep and no poll, or sleeps
\* once and then polls once; its n-th sleep, which follows its n-th poll,
\* lasts 1, 2, 3, 1, 2, 3, ... seconds.
C27_Cadence ==
    [][last'.op = "wait"
          => IF pc = Idle
             THEN /\ now' = now
                  /\ SacctRuns(last') <= 1
             ELSE \/ /\ pc' = Idle
                     /\ now' = now
                     /\ SacctRuns(last') = 0
                  \/ /\ now' - now = NthSleep(update_state_count[pc.job])
                     /\ SacctRuns(last') = 1]_vars

\* C27, termination: when sacct reports only final states for the records
\* of the job from some time on, a wait(job) that is in its loop returns or
\* raises.
C27_Terminates == (pc # Idle /\ SettlesInTime) ~> (pc = Idle)

\* C27: wait(job) keeps the cadence and terminates.
C27_WaitTerminates == C27_Cadence /\ C27_Terminates

\* wait(job), called at the submission of a job whose record settled after
\* 4 to 5 seconds, returned at its fourth poll, having slept 1, 2 and 3 s
C27_Witness ==
    /\ pc = Idle
    /\ last.op = "wait"
    /\ last.raised = None
    /\ last.ret # None
    /\ SettlesInTime
    /\ World.at > 3
    /\ update_state_count["j1"] = 4
    /\ now - submit_time["j1"] = 6
    /\ slurm_state_completed(state["j1"])

============================================================================
